---- MODULE Spec2Model ----
(***************************************************************************)
(* Model of the markdown lexer and recursive-descent parser of `mark`      *)
(* (src/src/markdown_parser).  Text is a sequence of one-character         *)
(* strings; tokens and AST nodes are records tagged by `kind`.             *)
(***************************************************************************)
EXTENDS Integers, Sequences, FiniteSets, TLC

VARIABLES
    mode,       \* "text": driven from raw text; "tokens": Parser::new on a given Vec<Token>
    input,      \* the text buffer handed to tokenize
    lx,         \* Lexer fields: current_pos, line, column
    tokens,     \* Lexer::tokenize's local Vec<Token>, later Parser.tokens
    lexResult,  \* what tokenize returned (kind "None" until it returns)
    ps,         \* Parser fields: current, line, column
    children,   \* Parser::parse's local Vec<AstNode>
    result,     \* what Parser::parse returned (kind "None" until it returns)
    ret,        \* what the four text entry points return
    pc,         \* position of the pipeline
    call,       \* 1 during the first call on the text, 2 during a second call on it
    first,      \* what the first call returned (kind "None" until a second call starts)
    dir,        \* BackgroundSearcher::new's arguments and what the directory walk yields
    wpc,        \* position of the worker thread
    wi,         \* number of entries the WalkDir iterator has yielded
    chan,       \* the mpsc channel: messages sent and not yet received
    sent,       \* history: every message a send has put into the channel
    rpc,        \* position of the owner of the BackgroundSearcher
    messages,   \* try_recv's local Vec<SearchMessage>
    is_complete, \* BackgroundSearcher.is_complete
    delivered,  \* history: the vectors try_recv has returned, concatenated
    file_list,  \* FileList fields; state.selected is the field selected
    lpc         \* position of the owner of the FileList

parserVars == <<mode, input, lx, tokens, lexResult, ps, children, result, ret, pc, call, first>>
searchVars == <<dir, wpc, wi, chan, sent, rpc, messages, is_complete, delivered>>
listVars == <<file_list, lpc>>
vars == <<parserVars, searchVars, listVars>>

(***************************************************************************)
(* Bounds of the model.                                                    *)
(***************************************************************************)
MaxLen == 2
MaxRun == 13
MaxItems == 3
MaxPieces == 3
MaxDigitPieces == 2
MaxTokens == 3
MaxEntries == 2

(***************************************************************************)
(* Characters.                                                             *)
(***************************************************************************)
NoChar == ""
\* the grave accent U+0060, which a string literal here cannot hold
BQ == "'"
Digits == {"0", "1", "2", "3", "4", "5", "6", "7", "8", "9"}

DigitVal(c) ==
    CASE c = "0" -> 0 [] c = "1" -> 1 [] c = "2" -> 2 [] c = "3" -> 3
      [] c = "4" -> 4 [] c = "5" -> 5 [] c = "6" -> 6 [] c = "7" -> 7
      [] c = "8" -> 8 [] c = "9" -> 9

DigitChar(d) == <<"0", "1", "2", "3", "4", "5", "6", "7", "8", "9">>[d + 1]

RECURSIVE Flatten(_)
Flatten(ss) == IF ss = <<>> THEN <<>> ELSE Head(ss) \o Flatten(Tail(ss))

RECURSIVE Repeat(_, _)
Repeat(c, n) == IF n <= 0 THEN <<>> ELSE <<c>> \o Repeat(c, n - 1)

StartsWith(s, p) == Len(s) >= Len(p) /\ SubSeq(s, 1, Len(p)) = p

(***************************************************************************)
(* u32 values.  A u32 is kept as hi * U32Base + lo, with both halves far   *)
(* below the range of the checker's integers.                              *)
(***************************************************************************)
U32Base == 100000
U32MaxHi == 42949
U32MaxLo == 67295

\* a digit fold that already overflows at the largest value
U32PushDigit_OffByOne(acc, d) ==
    IF ~acc.ok THEN acc
    ELSE LET t  == acc.lo * 10 + d
             lo == t % U32Base
             hi == acc.hi * 10 + (t \div U32Base)
         IN  IF hi > U32MaxHi \/ (hi = U32MaxHi /\ lo >= U32MaxLo)
             THEN [ok |-> FALSE, hi |-> 0, lo |-> 0]
             ELSE [ok |-> TRUE, hi |-> hi, lo |-> lo]

\* u32::checked_mul(10) followed by u32::checked_add(d), as str::parse::<u32> folds digits
U32PushDigit(acc, d) ==
    IF ~acc.ok THEN acc
    ELSE LET t  == acc.lo * 10 + d
             lo == t % U32Base
             hi == acc.hi * 10 + (t \div U32Base)
         IN  IF hi > U32MaxHi \/ (hi = U32MaxHi /\ lo > U32MaxLo)
             THEN [ok |-> FALSE, hi |-> 0, lo |-> 0]
             ELSE [ok |-> TRUE, hi |-> hi, lo |-> lo]

RECURSIVE ParseU32From(_, _)
ParseU32From(s, acc) ==
    IF s = <<>> THEN acc ELSE ParseU32From(Tail(s), U32PushDigit(acc, DigitVal(Head(s))))

ParseU32(s) == ParseU32From(s, [ok |-> TRUE, hi |-> 0, lo |-> 0])

(***************************************************************************)
(* Tokens (lexer/tokens.rs).                                               *)
(***************************************************************************)
TText(s) == [kind |-> "Text", s |-> s]
TUrl(s) == [kind |-> "Url", s |-> s]
TNumber(u) == [kind |-> "Number", hi |-> u.hi, lo |-> u.lo]
TCount(k, n) == [kind |-> k, n |-> n]
TSimple(k) == [kind |-> k]

TNewline == TSimple("Newline")
TWhitespace == TSimple("Whitespace")
TEof == TSimple("Eof")

(***************************************************************************)
(* Lexer (lexer/lexer.rs).                                                 *)
(***************************************************************************)
HashCap == 6
AsteriskCap == 3
BacktickCap == 4
UnderscoreCap == 3
TildeCap == 3

LexerNew == [pos |-> 0, line |-> 1, column |-> 1]

peek_char(inp, L) == IF L.pos < Len(inp) THEN inp[L.pos + 1] ELSE NoChar

lexer_advance(inp, L) ==
    IF L.pos >= Len(inp) THEN L
    ELSE IF inp[L.pos + 1] = "\n"
         THEN [pos |-> L.pos + 1, line |-> L.line + 1, column |-> 1]
         ELSE [pos |-> L.pos + 1, line |-> L.line, column |-> L.column + 1]

\* the counting loop shared by read_hashes, read_asterisks, read_backticks,
\* read_underscores and read_tildes: returns the count and the lexer after it
RECURSIVE ReadRun(_, _, _, _, _)
\* a counting loop that lets a run grow one past its cap
ReadRun_OnePastCap(inp, L, c, cap, count) ==
    IF peek_char(inp, L) = c /\ count <= cap
    THEN ReadRun(inp, lexer_advance(inp, L), c, cap, count + 1)
    ELSE [count |-> count, L |-> L]

ReadRun(inp, L, c, cap, count) ==
    IF peek_char(inp, L) = c /\ count < cap
    THEN ReadRun(inp, lexer_advance(inp, L), c, cap, count + 1)
    ELSE [count |-> count, L |-> L]

LexOk(tok, L) == [ok |-> TRUE, tok |-> tok, L |-> L]

read_marker(inp, L, c, cap, kind) ==
    LET r == ReadRun(inp, L, c, cap, 0) IN LexOk(TCount(kind, r.count), r.L)

read_hashes(inp, L) == read_marker(inp, L, "#", HashCap, "Hash")
read_asterisks(inp, L) == read_marker(inp, L, "*", AsteriskCap, "Asterisk")
read_backticks(inp, L) == read_marker(inp, L, BQ, BacktickCap, "Backtick")
read_underscores(inp, L) == read_marker(inp, L, "_", UnderscoreCap, "Underscore")
read_tildes(inp, L) == read_marker(inp, L, "~", TildeCap, "Tilde")

RECURSIVE ReadDigits(_, _, _)
ReadDigits(inp, L, acc) ==
    IF peek_char(inp, L) \in Digits
    THEN ReadDigits(inp, lexer_advance(inp, L), Append(acc, peek_char(inp, L)))
    ELSE [s |-> acc, L |-> L]

number_too_large(value, line, column) ==
    [kind |-> "NumberTooLarge", value |-> value, line |-> line, column |-> column]

read_number(inp, L) ==
    LET r == ReadDigits(inp, L, <<>>)
        u == ParseU32(r.s)
    IN  IF u.ok THEN LexOk(TNumber(u), r.L)
        ELSE [ok |-> FALSE, err |-> number_too_large(r.s, L.line, L.column), L |-> r.L]

TextStops == {"\n", "\r", " ", "\t", "#", "*", BQ, "_", "~", "[", "]", "(", ")",
              "!", ">", "-", "|", "+"}

RECURSIVE ReadTextRun(_, _, _)
\* a text run that reads on through a '+'
ReadTextRun_ThroughPlus(inp, L, acc) ==
    LET ch == peek_char(inp, L) IN
    IF ch = NoChar \/ ch \in TextStops \ {"+"} THEN [s |-> acc, L |-> L]
    ELSE ReadTextRun(inp, lexer_advance(inp, L), Append(acc, ch))

ReadTextRun(inp, L, acc) ==
    LET ch == peek_char(inp, L) IN
    IF ch = NoChar \/ ch \in TextStops THEN [s |-> acc, L |-> L]
    ELSE ReadTextRun(inp, lexer_advance(inp, L), Append(acc, ch))

UrlPrefixes ==
    { <<"h", "t", "t", "p", ":", "/", "/">>,
      <<"h", "t", "t", "p", "s", ":", "/", "/">>,
      <<"f", "t", "p", ":", "/", "/">>,
      <<"m", "a", "i", "l", "t", "o", ":">> }

read_text(inp, L, first_char) ==
    LET r == ReadTextRun(inp, lexer_advance(inp, L), <<first_char>>) IN
    IF \E p \in UrlPrefixes : StartsWith(r.s, p)
    THEN LexOk(TUrl(r.s), r.L)
    ELSE LexOk(TText(r.s), r.L)

RECURSIVE read_whitespace_loop(_, _)
read_whitespace_loop(inp, L) ==
    IF peek_char(inp, L) \in {" ", "\t"}
    THEN read_whitespace_loop(inp, lexer_advance(inp, L))
    ELSE L

\* a whitespace reader that emits its token without consuming anything
read_whitespace_NoAdvance(inp, L) == LexOk(TWhitespace, L)

read_whitespace(inp, L) == LexOk(TWhitespace, read_whitespace_loop(inp, L))

SingleCharKind(ch) ==
    CASE ch = "[" -> "LeftBracket" [] ch = "]" -> "RightBracket"
      [] ch = "(" -> "LeftParen"   [] ch = ")" -> "RightParen"
      [] ch = "!" -> "Exclamation" [] ch = ">" -> "GreaterThan"
      [] ch = "-" -> "Hyphen"      [] ch = "." -> "Dot"
      [] ch = "|" -> "Pipe"        [] ch = ":" -> "Colon"
      [] ch = "+" -> "Plus"

SingleChars == {"[", "]", "(", ")", "!", ">", "-", ".", "|", ":", "+"}

read_token(inp, L, ch) ==
    CASE ch = "\n" -> LexOk(TNewline, lexer_advance(inp, L))
      [] ch = "\r" ->
            LET L1 == lexer_advance(inp, L) IN
            IF peek_char(inp, L1) = "\n"
            THEN LexOk(TNewline, lexer_advance(inp, L1))
            ELSE LexOk(TNewline, L1)
      [] ch \in {" ", "\t"} -> read_whitespace(inp, L)
      [] ch = "#" -> read_hashes(inp, L)
      [] ch = "*" -> read_asterisks(inp, L)
      [] ch = BQ -> read_backticks(inp, L)
      [] ch = "_" -> read_underscores(inp, L)
      [] ch \in SingleChars -> LexOk(TSimple(SingleCharKind(ch)), lexer_advance(inp, L))
      [] ch \in Digits -> read_number(inp, L)
      [] ch = "~" -> read_tildes(inp, L)
      [] OTHER -> read_text(inp, L, ch)

\* Lexer::next_token: Ok(Some(Eof)) at the end of the input, else read_token
next_token(inp, L) ==
    IF peek_char(inp, L) = NoChar THEN LexOk(TEof, L)
    ELSE read_token(inp, L, peek_char(inp, L))

(***************************************************************************)
(* Debug formatting of tokens (#[derive(Debug)] on Token), used where the  *)
(* parser pushes format!("{:?}", token).                                   *)
(***************************************************************************)
RECURSIVE NatToStr(_)
NatToStr(n) == IF n < 10 THEN <<DigitChar(n)>> ELSE NatToStr(n \div 10) \o <<DigitChar(n % 10)>>

\* decimal digits of lo, zero-padded to the five digits of U32Base
Pad5(lo) ==
    <<DigitChar(lo \div 10000), DigitChar((lo \div 1000) % 10), DigitChar((lo \div 100) % 10),
      DigitChar((lo \div 10) % 10), DigitChar(lo % 10)>>

U32ToStr(hi, lo) == IF hi = 0 THEN NatToStr(lo) ELSE NatToStr(hi) \o Pad5(lo)

RECURSIVE EscapeDebug(_)
EscapeDebug(s) ==
    IF s = <<>> THEN <<>>
    ELSE (CASE Head(s) = "\"" -> <<"\\", "\"">>
            [] Head(s) = "\\" -> <<"\\", "\\">>
            [] Head(s) = "\n" -> <<"\\", "n">>
            [] Head(s) = "\r" -> <<"\\", "r">>
            [] Head(s) = "\t" -> <<"\\", "t">>
            [] OTHER -> <<Head(s)>>) \o EscapeDebug(Tail(s))

KindName(k) ==
    CASE k = "Text" -> <<"T", "e", "x", "t">>
      [] k = "Newline" -> <<"N", "e", "w", "l", "i", "n", "e">>
      [] k = "Whitespace" -> <<"W", "h", "i", "t", "e", "s", "p", "a", "c", "e">>
      [] k = "Eof" -> <<"E", "o", "f">>
      [] k = "Hash" -> <<"H", "a", "s", "h">>
      [] k = "Asterisk" -> <<"A", "s", "t", "e", "r", "i", "s", "k">>
      [] k = "Underscore" -> <<"U", "n", "d", "e", "r", "s", "c", "o", "r", "e">>
      [] k = "Tilde" -> <<"T", "i", "l", "d", "e">>
      [] k = "Backtick" -> <<"B", "a", "c", "k", "t", "i", "c", "k">>
      [] k = "LeftBracket" -> <<"L", "e", "f", "t", "B", "r", "a", "c", "k", "e", "t">>
      [] k = "RightBracket" -> <<"R", "i", "g", "h", "t", "B", "r", "a", "c", "k", "e", "t">>
      [] k = "LeftParen" -> <<"L", "e", "f", "t", "P", "a", "r", "e", "n">>
      [] k = "RightParen" -> <<"R", "i", "g", "h", "t", "P", "a", "r", "e", "n">>
      [] k = "Exclamation" -> <<"E", "x", "c", "l", "a", "m", "a", "t", "i", "o", "n">>
      [] k = "GreaterThan" -> <<"G", "r", "e", "a", "t", "e", "r", "T", "h", "a", "n">>
      [] k = "Hyphen" -> <<"H", "y", "p", "h", "e", "n">>
      [] k = "Number" -> <<"N", "u", "m", "b", "e", "r">>
      [] k = "Dot" -> <<"D", "o", "t">>
      [] k = "Plus" -> <<"P", "l", "u", "s">>
      [] k = "Pipe" -> <<"P", "i", "p", "e">>
      [] k = "Colon" -> <<"C", "o", "l", "o", "n">>
      [] k = "Url" -> <<"U", "r", "l">>

CountKinds == {"Hash", "Asterisk", "Underscore", "Tilde", "Backtick"}

TokenDebug(tok) ==
    CASE tok.kind \in CountKinds -> KindName(tok.kind) \o <<"(">> \o NatToStr(tok.n) \o <<")">>
      [] tok.kind \in {"Text", "Url"} ->
            KindName(tok.kind) \o <<"(", "\"">> \o EscapeDebug(tok.s) \o <<"\"", ")">>
      [] tok.kind = "Number" ->
            KindName(tok.kind) \o <<"(">> \o U32ToStr(tok.hi, tok.lo) \o <<")">>
      [] OTHER -> KindName(tok.kind)

(***************************************************************************)
(* AST nodes (parser/ast.rs).                                              *)
(***************************************************************************)
Document(ch) == [kind |-> "Document", children |-> ch]
Heading(level, content) == [kind |-> "Heading", level |-> level, content |-> content]
Paragraph(content) == [kind |-> "Paragraph", content |-> content]
List(ordered, items) == [kind |-> "List", ordered |-> ordered, items |-> items]
ListItem(content) == [kind |-> "ListItem", content |-> content]
BlockQuote(content) == [kind |-> "BlockQuote", content |-> content]
CodeBlock(language, code) == [kind |-> "CodeBlock", language |-> language, code |-> code]
HorizontalRule == [kind |-> "HorizontalRule"]
Table(headers, rows) == [kind |-> "Table", headers |-> headers, rows |-> rows]
TableCell(content) == [kind |-> "TableCell", content |-> content]
Text(value) == [kind |-> "Text", value |-> value]
Bold(content) == [kind |-> "Bold", content |-> content]
Italic(content) == [kind |-> "Italic", content |-> content]
Strikethrough(content) == [kind |-> "Strikethrough", content |-> content]
InlineCode(code) == [kind |-> "InlineCode", code |-> code]
Link(text, url) == [kind |-> "Link", text |-> text, url |-> url]
Image(alt, url) == [kind |-> "Image", alt |-> alt, url |-> url]
LineBreak == [kind |-> "LineBreak"]

\* Option<String>
NoneStr == [some |-> FALSE, s |-> <<>>]
SomeStr(s) == [some |-> TRUE, s |-> s]

is_inline(node) ==
    node.kind \in {"Text", "Bold", "Italic", "Strikethrough", "InlineCode", "Link", "Image",
                   "LineBreak"}

is_block(node) == ~is_inline(node)

(***************************************************************************)
(* Parse errors (error.rs).                                                *)
(***************************************************************************)
invalid_heading_level(level, line, column) ==
    [kind |-> "InvalidHeadingLevel", level |-> level, line |-> line, column |-> column]
malformed_link(message, line, column) ==
    [kind |-> "MalformedLink", message |-> message, line |-> line, column |-> column]
malformed_image(message, line, column) ==
    [kind |-> "MalformedImage", message |-> message, line |-> line, column |-> column]
invalid_list(message, line, column) ==
    [kind |-> "InvalidList", message |-> message, line |-> line, column |-> column]
unmatched_delimiter(delimiter, line, column) ==
    [kind |-> "UnmatchedDelimiter", delimiter |-> delimiter, line |-> line, column |-> column]
\* not an error value: the call never returns (a loop that no longer advances)
NeverReturns == [kind |-> "NeverReturns"]

(***************************************************************************)
(* Parser helpers (parser/parser.rs).  P holds the Parser's current, line  *)
(* and column; toks is Parser.tokens.                                      *)
(***************************************************************************)
NoToken == [kind |-> "None"]
ParserNew == [current |-> 0, line |-> 1, column |-> 1]

current_token(toks, P) == IF P.current < Len(toks) THEN toks[P.current + 1] ELSE NoToken

peek_previous(toks, P) ==
    IF P.current > 0 /\ P.current - 1 < Len(toks) THEN toks[P.current] ELSE NoToken

is_at_end(toks, P) == P.current >= Len(toks) \/ current_token(toks, P).kind = "Eof"

advance(toks, P) ==
    IF is_at_end(toks, P) THEN P
    ELSE IF current_token(toks, P).kind = "Newline"
         THEN [current |-> P.current + 1, line |-> P.line + 1, column |-> 1]
         ELSE [current |-> P.current + 1, line |-> P.line, column |-> P.column + 1]

\* a skip_whitespace that leaves the cursor where it is
skip_whitespace_Stay(toks, P) == P

RECURSIVE skip_whitespace(_, _)
skip_whitespace(toks, P) ==
    IF current_token(toks, P).kind = "Whitespace"
    THEN skip_whitespace(toks, advance(toks, P))
    ELSE P

\* an item loop that does not skip the line ends after an item
skip_newlines_None(toks, P) == P

\* the loops of the shape `while matches!(current_token(), Some(Newline)) { advance() }`
RECURSIVE skip_newlines(_, _)
skip_newlines(toks, P) ==
    IF current_token(toks, P).kind = "Newline"
    THEN skip_newlines(toks, advance(toks, P))
    ELSE P

RECURSIVE CountHyphens(_, _)
CountHyphens(toks, pos) ==
    IF pos < Len(toks) /\ toks[pos + 1].kind = "Hyphen" THEN 1 + CountHyphens(toks, pos + 1) ELSE 0

is_horizontal_rule(toks, P) == CountHyphens(toks, P.current) >= 3

RECURSIVE BlockStartFrom(_, _)
BlockStartFrom(toks, pos) ==
    IF pos >= Len(toks) THEN FALSE
    ELSE LET t == toks[pos + 1] IN
         CASE t.kind \in {"Whitespace", "Newline"} -> BlockStartFrom(toks, pos + 1)
           [] t.kind \in {"Hash", "Number", "Hyphen", "Plus", "GreaterThan", "Pipe"} -> TRUE
           [] t.kind = "Backtick" -> t.n >= 3
           [] OTHER -> FALSE

\* a lookahead at the one token after the Newline, without skipping blank lines
peek_next_is_block_start_OneToken(toks, P) ==
    /\ P.current + 2 <= Len(toks)
    /\ \/ toks[P.current + 2].kind \in {"Hash", "Number", "Hyphen", "Plus", "GreaterThan", "Pipe"}
       \/ toks[P.current + 2].kind = "Backtick" /\ toks[P.current + 2].n >= 3

peek_next_is_block_start(toks, P) == BlockStartFrom(toks, P.current + 1)

\* `let v = ...;` followed by the code that uses v: the value is computed once
Bind(v, Op(_)) == CHOOSE y \in {Op(w) : w \in {v}} : TRUE

Err(e, P) == [ok |-> FALSE, err |-> e, P |-> P]
OkNodes(nodes, P) == [ok |-> TRUE, nodes |-> nodes, P |-> P]
OkNode(node, P) == [ok |-> TRUE, node |-> node, P |-> P]

(***************************************************************************)
(* Inline parsing.                                                         *)
(***************************************************************************)
RECURSIVE parse_inline_content(_, _)
RECURSIVE parse_emphasis(_, _, _)
RECURSIVE parse_underscore_emphasis(_, _, _)
RECURSIVE parse_strikethrough(_, _)
RECURSIVE parse_link_or_image(_, _)
RECURSIVE DelimitedLoop(_, _, _, _, _)
RECURSIVE BracketLoop(_, _, _, _)

\* a span loop that carries on across line ends
DelimitedLoop_CrossLines(toks, P, kind, n, content) ==
    LET tok == current_token(toks, P) IN
    CASE tok.kind = "None" -> [ok |-> TRUE, found |-> FALSE, nodes |-> content, P |-> P]
      [] tok.kind = kind /\ tok.n = n ->
            [ok |-> TRUE, found |-> TRUE, nodes |-> content, P |-> advance(toks, P)]
      [] tok.kind = "Eof" ->
            [ok |-> TRUE, found |-> FALSE, nodes |-> content, P |-> P]
      [] OTHER ->
            Bind(parse_inline_content(toks, P), LAMBDA r :
                IF r.ok THEN DelimitedLoop(toks, r.P, kind, n, content \o r.nodes) ELSE r)

\* the loop of parse_emphasis, parse_underscore_emphasis and parse_strikethrough:
\* inline content until the closing marker `kind`(n), a Newline, Eof or the end
DelimitedLoop(toks, P, kind, n, content) ==
    LET tok == current_token(toks, P) IN
    CASE tok.kind = "None" -> [ok |-> TRUE, found |-> FALSE, nodes |-> content, P |-> P]
      [] tok.kind = kind /\ tok.n = n ->
            [ok |-> TRUE, found |-> TRUE, nodes |-> content, P |-> advance(toks, P)]
      [] tok.kind \in {"Newline", "Eof"} ->
            [ok |-> TRUE, found |-> FALSE, nodes |-> content, P |-> P]
      [] OTHER ->
            Bind(parse_inline_content(toks, P), LAMBDA r :
                IF r.ok THEN DelimitedLoop(toks, r.P, kind, n, content \o r.nodes) ELSE r)

parse_emphasis(toks, P, count) ==
    Bind(DelimitedLoop(toks, advance(toks, P), "Asterisk", count, <<>>), LAMBDA r :
        IF ~r.ok THEN r
        ELSE IF ~r.found THEN Err(unmatched_delimiter("*", r.P.line, r.P.column), r.P)
        ELSE CASE count = 1 -> OkNode(Italic(r.nodes), r.P)
               [] count = 2 -> OkNode(Bold(r.nodes), r.P)
               [] OTHER -> OkNode(Text(Repeat("*", count)), r.P))

parse_underscore_emphasis(toks, P, count) ==
    Bind(DelimitedLoop(toks, advance(toks, P), "Underscore", count, <<>>), LAMBDA r :
        IF ~r.ok THEN r
        ELSE IF ~r.found THEN Err(unmatched_delimiter("_", r.P.line, r.P.column), r.P)
        ELSE CASE count = 1 -> OkNode(Italic(r.nodes), r.P)
               [] count = 2 -> OkNode(Bold(r.nodes), r.P)
               [] OTHER -> OkNode(Text(Repeat("_", count)), r.P))

parse_strikethrough(toks, P) ==
    Bind(DelimitedLoop(toks, advance(toks, P), "Tilde", 2, <<>>), LAMBDA r :
        IF ~r.ok THEN r
        ELSE IF ~r.found THEN Err(unmatched_delimiter("~", r.P.line, r.P.column), r.P)
        ELSE OkNode(Strikethrough(r.nodes), r.P))

RECURSIVE InlineCodeLoop(_, _, _)
InlineCodeLoop(toks, P, code) ==
    LET tok == current_token(toks, P) IN
    CASE tok.kind = "None" -> [found |-> FALSE, code |-> code, P |-> P]
      [] tok.kind = "Backtick" /\ tok.n = 1 ->
            [found |-> TRUE, code |-> code, P |-> advance(toks, P)]
      [] tok.kind = "Text" -> InlineCodeLoop(toks, advance(toks, P), code \o tok.s)
      [] tok.kind = "Whitespace" -> InlineCodeLoop(toks, advance(toks, P), Append(code, " "))
      [] tok.kind \in {"Newline", "Eof"} -> [found |-> FALSE, code |-> code, P |-> P]
      [] OTHER -> InlineCodeLoop(toks, advance(toks, P), code \o TokenDebug(tok))

parse_inline_code(toks, P) ==
    Bind(InlineCodeLoop(toks, advance(toks, P), <<>>), LAMBDA r :
        IF ~r.found THEN Err(unmatched_delimiter(BQ, r.P.line, r.P.column), r.P)
        ELSE OkNode(InlineCode(r.code), r.P))

\* the first loop of parse_link and parse_image: inline content up to `]`
BracketLoop(toks, P, image, text) ==
    LET tok == current_token(toks, P) IN
    CASE tok.kind = "None" -> OkNodes(text, P)
      [] tok.kind = "RightBracket" -> OkNodes(text, advance(toks, P))
      [] tok.kind = "Eof" ->
            IF image
            THEN Err(malformed_image("Unexpected end of input in image alt text",
                                     P.line, P.column), P)
            ELSE Err(malformed_link("Unexpected end of input in link text",
                                    P.line, P.column), P)
      [] OTHER ->
            Bind(parse_inline_content(toks, P), LAMBDA r :
                IF r.ok THEN BracketLoop(toks, r.P, image, text \o r.nodes) ELSE r)

\* a url loop that takes the end of input for the closing parenthesis
RECURSIVE UrlLoop(_, _, _, _)
UrlLoop_EofCloses(toks, P, image, url) ==
    LET tok == current_token(toks, P) IN
    CASE tok.kind \in {"None", "Eof"} -> [ok |-> TRUE, url |-> url, P |-> P]
      [] tok.kind = "RightParen" -> [ok |-> TRUE, url |-> url, P |-> advance(toks, P)]
      [] tok.kind \in {"Text", "Url"} -> UrlLoop(toks, advance(toks, P), image, url \o tok.s)
      [] OTHER -> UrlLoop(toks, advance(toks, P), image, url)

\* a url loop that keeps the hyphens of the url
UrlLoop_KeepsHyphen(toks, P, image, url) ==
    LET tok == current_token(toks, P) IN
    CASE tok.kind = "None" -> [ok |-> TRUE, url |-> url, P |-> P]
      [] tok.kind = "RightParen" -> [ok |-> TRUE, url |-> url, P |-> advance(toks, P)]
      [] tok.kind \in {"Text", "Url"} -> UrlLoop(toks, advance(toks, P), image, url \o tok.s)
      [] tok.kind = "Hyphen" -> UrlLoop(toks, advance(toks, P), image, Append(url, "-"))
      [] tok.kind = "Eof" ->
            IF image
            THEN Err(malformed_image("Unexpected end of input in image URL", P.line, P.column), P)
            ELSE Err(malformed_link("Unexpected end of input in link URL", P.line, P.column), P)
      [] OTHER -> UrlLoop(toks, advance(toks, P), image, url)

\* the second loop of parse_link and parse_image: the url up to `)`
UrlLoop(toks, P, image, url) ==
    LET tok == current_token(toks, P) IN
    CASE tok.kind = "None" -> [ok |-> TRUE, url |-> url, P |-> P]
      [] tok.kind = "RightParen" -> [ok |-> TRUE, url |-> url, P |-> advance(toks, P)]
      [] tok.kind \in {"Text", "Url"} -> UrlLoop(toks, advance(toks, P), image, url \o tok.s)
      [] tok.kind = "Eof" ->
            IF image
            THEN Err(malformed_image("Unexpected end of input in image URL", P.line, P.column), P)
            ELSE Err(malformed_link("Unexpected end of input in link URL", P.line, P.column), P)
      [] OTHER -> UrlLoop(toks, advance(toks, P), image, url)

parse_link(toks, P) ==
    Bind(BracketLoop(toks, advance(toks, P), FALSE, <<>>), LAMBDA t :
        IF ~t.ok THEN t
        ELSE IF current_token(toks, t.P).kind # "LeftParen"
        THEN Err(malformed_link("Expected '(' after link text", t.P.line, t.P.column), t.P)
        ELSE Bind(UrlLoop(toks, advance(toks, t.P), FALSE, <<>>), LAMBDA u :
                 IF ~u.ok THEN u ELSE OkNode(Link(t.nodes, u.url), u.P)))

parse_image(toks, P) ==
    Bind(BracketLoop(toks, advance(toks, P), TRUE, <<>>), LAMBDA t :
        IF ~t.ok THEN t
        ELSE IF current_token(toks, t.P).kind # "LeftParen"
        THEN Err(malformed_image("Expected '(' after image alt text", t.P.line, t.P.column), t.P)
        ELSE Bind(UrlLoop(toks, advance(toks, t.P), TRUE, <<>>), LAMBDA u :
                 IF ~u.ok THEN u ELSE OkNode(Image(t.nodes, u.url), u.P)))

\* a dispatch that never looks at the previous token
parse_link_or_image_AlwaysLink(toks, P) == parse_link(toks, P)

parse_link_or_image(toks, P) ==
    IF peek_previous(toks, P).kind = "Exclamation" THEN parse_image(toks, P)
    ELSE parse_link(toks, P)

\* a node-returning parse, `?`-propagated and pushed onto an empty content vector
AsNodes(r) == IF r.ok THEN OkNodes(<<r.node>>, r.P) ELSE r

\* a match that keeps a Dot as the text `.`
InlineDispatch_DotAsText(toks, P) ==
    LET tok == current_token(toks, P) IN
    CASE tok.kind = "Text" -> OkNodes(<<Text(tok.s)>>, advance(toks, P))
      [] tok.kind = "Asterisk" -> AsNodes(parse_emphasis(toks, P, tok.n))
      [] tok.kind = "Underscore" -> AsNodes(parse_underscore_emphasis(toks, P, tok.n))
      [] tok.kind = "LeftBracket" -> AsNodes(parse_link_or_image(toks, P))
      [] tok.kind = "Backtick" /\ tok.n = 1 -> AsNodes(parse_inline_code(toks, P))
      [] tok.kind = "Tilde" /\ tok.n = 2 -> AsNodes(parse_strikethrough(toks, P))
      [] tok.kind = "Whitespace" -> OkNodes(<<Text(<<" ">>)>>, advance(toks, P))
      [] tok.kind = "Dot" -> OkNodes(<<Text(<<".">>)>>, advance(toks, P))
      [] OTHER -> OkNodes(<<>>, advance(toks, P))

\* the match shared by parse_inline_content and parse_inline_content_until_newline
InlineDispatch(toks, P) ==
    LET tok == current_token(toks, P) IN
    CASE tok.kind = "Text" -> OkNodes(<<Text(tok.s)>>, advance(toks, P))
      [] tok.kind = "Asterisk" -> AsNodes(parse_emphasis(toks, P, tok.n))
      [] tok.kind = "Underscore" -> AsNodes(parse_underscore_emphasis(toks, P, tok.n))
      [] tok.kind = "LeftBracket" -> AsNodes(parse_link_or_image(toks, P))
      [] tok.kind = "Backtick" /\ tok.n = 1 -> AsNodes(parse_inline_code(toks, P))
      [] tok.kind = "Tilde" /\ tok.n = 2 -> AsNodes(parse_strikethrough(toks, P))
      [] tok.kind = "Whitespace" -> OkNodes(<<Text(<<" ">>)>>, advance(toks, P))
      [] OTHER -> OkNodes(<<>>, advance(toks, P))

parse_inline_content(toks, P) == InlineDispatch(toks, P)

RECURSIVE InlineUntilNewlineLoop(_, _, _)
InlineUntilNewlineLoop(toks, P, content) ==
    LET tok == current_token(toks, P) IN
    IF tok.kind \in {"None", "Newline", "Eof"} THEN OkNodes(content, P)
    ELSE Bind(InlineDispatch(toks, P), LAMBDA r :
             IF r.ok THEN InlineUntilNewlineLoop(toks, r.P, content \o r.nodes) ELSE r)

parse_inline_content_until_newline(toks, P) == InlineUntilNewlineLoop(toks, P, <<>>)

\* a heading parser that rejects level 6 as well
parse_heading_BelowSix(toks, P, level) ==
    IF level >= 6 THEN Err(invalid_heading_level(level, P.line, P.column), P)
    ELSE Bind(parse_inline_content_until_newline(toks, skip_whitespace(toks, advance(toks, P))),
              LAMBDA r : IF r.ok THEN OkNode(Heading(level, r.nodes), r.P) ELSE r)

(***************************************************************************)
(* Block parsing.                                                          *)
(***************************************************************************)
parse_heading(toks, P, level) ==
    IF level > 6 THEN Err(invalid_heading_level(level, P.line, P.column), P)
    ELSE Bind(parse_inline_content_until_newline(toks, skip_whitespace(toks, advance(toks, P))),
              LAMBDA r : IF r.ok THEN OkNode(Heading(level, r.nodes), r.P) ELSE r)

RECURSIVE ParagraphLoop(_, _, _)
ParagraphLoop(toks, P, content) ==
    LET tok == current_token(toks, P) IN
    CASE tok.kind \in {"None", "Eof"} -> OkNode(Paragraph(content), P)
      [] tok.kind = "Newline" ->
            IF peek_next_is_block_start(toks, P) THEN OkNode(Paragraph(content), P)
            ELSE ParagraphLoop(toks, advance(toks, P), Append(content, LineBreak))
      [] OTHER ->
            Bind(parse_inline_content(toks, P), LAMBDA r :
                IF r.ok THEN ParagraphLoop(toks, r.P, content \o r.nodes) ELSE r)

parse_paragraph(toks, P) == ParagraphLoop(toks, P, <<>>)

RECURSIVE OrderedListLoop(_, _, _)
\* an item loop that ends the list at a number without a dot instead of failing
OrderedListLoop_EndsAtBareNumber(toks, P, items) ==
    IF current_token(toks, P).kind # "Number" THEN OkNode(List(TRUE, items), P)
    ELSE LET P1 == advance(toks, P) IN
         IF current_token(toks, P1).kind # "Dot"
         THEN OkNode(List(TRUE, items), P1)
         ELSE Bind(parse_inline_content_until_newline(
                       toks, skip_whitespace(toks, advance(toks, P1))), LAMBDA r :
                  IF ~r.ok THEN r
                  ELSE OrderedListLoop(toks, skip_newlines(toks, r.P),
                                       Append(items, ListItem(r.nodes))))

OrderedListLoop(toks, P, items) ==
    IF current_token(toks, P).kind # "Number" THEN OkNode(List(TRUE, items), P)
    ELSE LET P1 == advance(toks, P) IN
         IF current_token(toks, P1).kind # "Dot"
         THEN Err(invalid_list("Expected '.' after list number", P1.line, P1.column), P1)
         ELSE Bind(parse_inline_content_until_newline(
                       toks, skip_whitespace(toks, advance(toks, P1))), LAMBDA r :
                  IF ~r.ok THEN r
                  ELSE OrderedListLoop(toks, skip_newlines(toks, r.P),
                                       Append(items, ListItem(r.nodes))))

parse_ordered_list(toks, P) == OrderedListLoop(toks, P, <<>>)

RECURSIVE UnorderedListLoop(_, _, _)
UnorderedListLoop(toks, P, items) ==
    IF current_token(toks, P).kind \notin {"Hyphen", "Plus"} THEN OkNode(List(FALSE, items), P)
    ELSE Bind(parse_inline_content_until_newline(
                  toks, skip_whitespace(toks, advance(toks, P))), LAMBDA r :
             IF ~r.ok THEN r
             ELSE UnorderedListLoop(toks, skip_newlines(toks, r.P),
                                    Append(items, ListItem(r.nodes))))

parse_unordered_list(toks, P) == UnorderedListLoop(toks, P, <<>>)

RECURSIVE BlockQuoteLoop(_, _, _)
\* a blockquote loop that wraps each quoted line in a Paragraph
BlockQuoteLoop_WrapLines(toks, P, content) ==
    IF current_token(toks, P).kind # "GreaterThan" THEN OkNode(BlockQuote(content), P)
    ELSE Bind(parse_inline_content_until_newline(
                  toks, skip_whitespace(toks, advance(toks, P))), LAMBDA r :
             IF ~r.ok THEN r
             ELSE BlockQuoteLoop(toks, skip_newlines(toks, r.P),
                                 Append(content, Paragraph(r.nodes))))

\* a blockquote loop that ends the BlockQuote with its first line
BlockQuoteLoop_OneLine(toks, P, content) ==
    IF current_token(toks, P).kind # "GreaterThan" THEN OkNode(BlockQuote(content), P)
    ELSE Bind(parse_inline_content_until_newline(
                  toks, skip_whitespace(toks, advance(toks, P))), LAMBDA r :
             IF ~r.ok THEN r
             ELSE OkNode(BlockQuote(content \o r.nodes), skip_newlines(toks, r.P)))

\* the loop of parse_blockquote: one iteration for each line that starts with `>`
BlockQuoteLoop(toks, P, content) ==
    IF current_token(toks, P).kind # "GreaterThan" THEN OkNode(BlockQuote(content), P)
    ELSE Bind(parse_inline_content_until_newline(
                  toks, skip_whitespace(toks, advance(toks, P))), LAMBDA r :
             IF ~r.ok THEN r
             ELSE BlockQuoteLoop(toks, skip_newlines(toks, r.P), content \o r.nodes))

parse_blockquote(toks, P) == BlockQuoteLoop(toks, P, <<>>)

\* a separator row that is not skipped
SkipToLineEnd_Stay(toks, P) == [ok |-> TRUE, P |-> P]

\* `while !matches!(current_token(), Some(Newline) | Some(Eof)) { advance() }`:
\* past the end of a token vector without Eof, advance() no longer moves
RECURSIVE SkipToLineEnd(_, _)
SkipToLineEnd(toks, P) ==
    LET tok == current_token(toks, P) IN
    CASE tok.kind \in {"Newline", "Eof"} -> [ok |-> TRUE, P |-> P]
      [] tok.kind = "None" -> Err(NeverReturns, P)
      [] OTHER -> SkipToLineEnd(toks, advance(toks, P))

RECURSIVE CodeLoop(_, _, _)
\* a code loop that takes only a fence of three backticks for the closing fence
CodeLoop_ClosesAtThree(toks, P, code) ==
    LET tok == current_token(toks, P) IN
    CASE tok.kind \in {"None", "Eof"} -> [code |-> code, P |-> P]
      [] tok.kind = "Backtick" /\ tok.n = 3 -> [code |-> code, P |-> advance(toks, P)]
      [] tok.kind = "Text" -> CodeLoop(toks, advance(toks, P), code \o tok.s)
      [] tok.kind = "Newline" -> CodeLoop(toks, advance(toks, P), Append(code, "\n"))
      [] OTHER -> CodeLoop(toks, advance(toks, P), code \o TokenDebug(tok))

\* the second loop of parse_code_block: the code up to the closing fence
CodeLoop(toks, P, code) ==
    LET tok == current_token(toks, P) IN
    CASE tok.kind \in {"None", "Eof"} -> [code |-> code, P |-> P]
      [] tok.kind = "Backtick" /\ tok.n \in {3, 4, 5} -> [code |-> code, P |-> advance(toks, P)]
      [] tok.kind = "Text" -> CodeLoop(toks, advance(toks, P), code \o tok.s)
      [] tok.kind = "Newline" -> CodeLoop(toks, advance(toks, P), Append(code, "\n"))
      [] OTHER -> CodeLoop(toks, advance(toks, P), code \o TokenDebug(tok))

parse_code_block(toks, P, fence_length) ==
    LET P1 == advance(toks, P)
        t  == current_token(toks, P1)
        language == IF t.kind = "Text" THEN SomeStr(t.s) ELSE NoneStr
        P2 == IF t.kind = "Text" THEN advance(toks, P1) ELSE P1
        e  == SkipToLineEnd(toks, P2)
    IN  IF ~e.ok THEN e
        ELSE LET c == CodeLoop(toks, advance(toks, e.P), <<>>) IN
             OkNode(CodeBlock(language, c.code), c.P)

RECURSIVE HyphenLoop(_, _, _)
HyphenLoop(toks, P, count) ==
    IF current_token(toks, P).kind = "Hyphen" THEN HyphenLoop(toks, advance(toks, P), count + 1)
    ELSE [count |-> count, P |-> P]

parse_horizontal_rule(toks, P) ==
    LET r == HyphenLoop(toks, P, 0) IN
    IF r.count < 3
    THEN Err(invalid_list("Horizontal rule requires at least 3 hyphens", r.P.line, r.P.column),
             r.P)
    ELSE OkNode(HorizontalRule, r.P)

RECURSIVE TableCellLoop(_, _, _)
TableCellLoop(toks, P, content) ==
    LET tok == current_token(toks, P) IN
    CASE tok.kind \in {"Pipe", "Newline", "Eof"} -> OkNodes(content, P)
      [] tok.kind = "None" -> Err(NeverReturns, P)
      [] tok.kind = "Text" -> TableCellLoop(toks, advance(toks, P), Append(content, Text(tok.s)))
      [] tok.kind = "Asterisk" ->
            Bind(parse_emphasis(toks, P, tok.n), LAMBDA r :
                IF r.ok THEN TableCellLoop(toks, r.P, Append(content, r.node)) ELSE r)
      [] tok.kind = "LeftBracket" ->
            Bind(parse_link_or_image(toks, P), LAMBDA r :
                IF r.ok THEN TableCellLoop(toks, r.P, Append(content, r.node)) ELSE r)
      [] tok.kind = "Backtick" /\ tok.n = 1 ->
            Bind(parse_inline_code(toks, P), LAMBDA r :
                IF r.ok THEN TableCellLoop(toks, r.P, Append(content, r.node)) ELSE r)
      [] OTHER -> TableCellLoop(toks, advance(toks, P), content)

parse_table_cell_content(toks, P) == TableCellLoop(toks, P, <<>>)

\* the cells of one row, after its initial pipe, up to Newline or Eof
RECURSIVE TableRowLoop(_, _, _)
TableRowLoop(toks, P, cells) ==
    LET tok == current_token(toks, P) IN
    CASE tok.kind \in {"Newline", "Eof"} -> OkNodes(cells, P)
      [] tok.kind = "Pipe" -> TableRowLoop(toks, advance(toks, P), cells)
      [] OTHER ->
            Bind(parse_table_cell_content(toks, P), LAMBDA r :
                IF r.ok THEN TableRowLoop(toks, r.P, Append(cells, TableCell(r.nodes))) ELSE r)

SkipOneNewline(toks, P) == IF current_token(toks, P).kind = "Newline" THEN advance(toks, P) ELSE P

RECURSIVE TableDataLoop(_, _, _, _)
TableDataLoop(toks, P, headers, rows) ==
    IF current_token(toks, P).kind # "Pipe" THEN OkNode(Table(headers, rows), P)
    ELSE Bind(TableRowLoop(toks, advance(toks, P), <<>>), LAMBDA r :
             IF ~r.ok THEN r
             ELSE TableDataLoop(toks, SkipOneNewline(toks, r.P), headers, Append(rows, r.nodes)))

parse_table(toks, P) ==
    Bind(IF current_token(toks, P).kind = "Pipe"
         THEN TableRowLoop(toks, advance(toks, P), <<>>)
         ELSE OkNodes(<<>>, P), LAMBDA h :
        IF ~h.ok THEN h
        ELSE Bind(SkipToLineEnd(toks, SkipOneNewline(toks, h.P)), LAMBDA sep :
                 IF ~sep.ok THEN sep
                 ELSE TableDataLoop(toks, SkipOneNewline(toks, sep.P), h.nodes, <<>>)))

NoNode == [kind |-> "None"]
OkSome(r) == IF r.ok THEN [ok |-> TRUE, some |-> TRUE, node |-> r.node, P |-> r.P] ELSE r
OkNone(P) == [ok |-> TRUE, some |-> FALSE, node |-> NoNode, P |-> P]

parse_block(toks, P) ==
    LET P0  == skip_whitespace(toks, P)
        tok == current_token(toks, P0)
    IN  CASE tok.kind = "Hash" -> OkSome(parse_heading(toks, P0, tok.n))
          [] tok.kind = "Number" -> OkSome(parse_ordered_list(toks, P0))
          [] tok.kind = "Hyphen" ->
                IF is_horizontal_rule(toks, P0) THEN OkSome(parse_horizontal_rule(toks, P0))
                ELSE OkSome(parse_unordered_list(toks, P0))
          [] tok.kind = "Plus" -> OkSome(parse_unordered_list(toks, P0))
          [] tok.kind = "GreaterThan" -> OkSome(parse_blockquote(toks, P0))
          [] tok.kind = "Backtick" /\ tok.n >= 3 -> OkSome(parse_code_block(toks, P0, tok.n))
          [] tok.kind = "Pipe" -> OkSome(parse_table(toks, P0))
          [] tok.kind = "Newline" -> OkNone(advance(toks, P0))
          [] tok.kind = "None" -> OkNone(P0)
          [] OTHER -> OkSome(parse_paragraph(toks, P0))

(***************************************************************************)
(* Results and the text entry points (markdown_parser/mod.rs,              *)
(* parser/mod.rs, error.rs).                                               *)
(***************************************************************************)
NoResult == [kind |-> "None"]
OkTokens(toks) == [kind |-> "Ok", tokens |-> toks]
OkDoc(doc) == [kind |-> "Ok", doc |-> doc]
ErrResult(e) == [kind |-> "Err", err |-> e]

\* a conversion that reports every lexer failure at the start of the text
ParseErrorFromLexerError_AtStart(e) ==
    [kind |-> "UnexpectedToken", expected |-> "valid number", found |-> e.value,
     line |-> 1, column |-> 1]

\* impl From<LexerError> for ParseError
ParseErrorFromLexerError(e) ==
    CASE e.kind = "UnexpectedCharacter" ->
            [kind |-> "UnexpectedToken", expected |-> "valid markdown character",
             found |-> <<e.character>>, line |-> e.line, column |-> e.column]
      [] e.kind = "UnterminatedCodeBlock" -> unmatched_delimiter(BQ, e.line, e.column)
      [] e.kind = "InvalidSyntax" ->
            [kind |-> "UnexpectedToken", expected |-> "valid markdown syntax",
             found |-> e.message, line |-> e.line, column |-> e.column]
      [] e.kind = "InvalidUrl" ->
            [kind |-> "MalformedLink", url |-> e.url, line |-> e.line, column |-> e.column]
      [] e.kind = "NumberTooLarge" ->
            [kind |-> "UnexpectedToken", expected |-> "valid number",
             found |-> e.value, line |-> e.line, column |-> e.column]

\* MarkError::Lexer(#[from] LexerError) and MarkError::Parser(#[from] ParseError)
MarkErrorLexer(e) == [kind |-> "MarkError::Lexer", inner |-> e]
MarkErrorParser(e) == [kind |-> "MarkError::Parser", inner |-> e]

\* parser::parse_markdown: tokenize(input)? then parse_tokens(tokens); lr and pr
\* are what tokenize and parse_tokens returned
parser_parse_markdown(lr, pr) ==
    IF lr.kind = "Err" THEN ErrResult(ParseErrorFromLexerError(lr.err)) ELSE pr

\* markdown_parser::parse_markdown
parse_markdown(lr, pr) ==
    IF lr.kind = "Err" THEN ErrResult(MarkErrorLexer(lr.err))
    ELSE IF pr.kind = "Err" THEN ErrResult(MarkErrorParser(pr.err))
    ELSE pr

\* unwrap_or_default that hands the failure through instead of the default Document
unwrap_or_default_Propagate(r) == IF r.kind = "Ok" THEN r.doc ELSE r

\* Result::unwrap_or_else(|_| AstNode::Document { children: vec![] })
unwrap_or_default(r) == IF r.kind = "Ok" THEN r.doc ELSE Document(<<>>)

parser_parse_markdown_or_default(lr, pr) == unwrap_or_default(parser_parse_markdown(lr, pr))
parse_markdown_or_default(lr, pr) == unwrap_or_default(parse_markdown(lr, pr))

(***************************************************************************)
(* AstNode::text_content.  The model has no TableRow node: the parser      *)
(* builds none.                                                            *)
(***************************************************************************)
\* Vec<String>::join(sep)
RECURSIVE JoinStrings(_, _)
JoinStrings(strs, sep) ==
    IF strs = <<>> THEN <<>>
    ELSE IF Len(strs) = 1 THEN strs[1]
    ELSE strs[1] \o sep \o JoinStrings(Tail(strs), sep)

RECURSIVE text_content(_)
text_content(node) ==
    CASE node.kind = "Text" -> node.value
      [] node.kind = "InlineCode" -> node.code
      [] node.kind \in {"Bold", "Italic", "Strikethrough", "Heading", "Paragraph", "ListItem",
                        "BlockQuote", "TableCell"} ->
            JoinStrings([i \in 1..Len(node.content) |-> text_content(node.content[i])], <<>>)
      [] node.kind = "Link" ->
            JoinStrings([i \in 1..Len(node.text) |-> text_content(node.text[i])], <<>>)
      [] node.kind = "Image" ->
            JoinStrings([i \in 1..Len(node.alt) |-> text_content(node.alt[i])], <<>>)
      [] node.kind = "List" ->
            JoinStrings([i \in 1..Len(node.items) |-> text_content(node.items[i])], <<"\n">>)
      [] node.kind = "Table" ->
            JoinStrings([i \in 1..Len(node.headers) |-> text_content(node.headers[i])],
                        <<" ", "|", " ">>)
                \o <<"\n">>
                \o JoinStrings([r \in 1..Len(node.rows) |->
                        JoinStrings([i \in 1..Len(node.rows[r]) |->
                                        text_content(node.rows[r][i])], <<" ", "|", " ">>)],
                               <<"\n">>)
      [] node.kind = "CodeBlock" -> node.code
      [] node.kind = "Document" ->
            JoinStrings([i \in 1..Len(node.children) |-> text_content(node.children[i])],
                        <<"\n">>)
      [] node.kind = "HorizontalRule" -> <<"-", "-", "-">>
      [] node.kind = "LineBreak" -> <<"\n">>

(***************************************************************************)
(* Inputs.  Text is drawn from several bounded families, each built to     *)
(* reach the cases of one part of the grammar; token vectors given         *)
(* directly to Parser::new are drawn from a small token alphabet.          *)
(***************************************************************************)
SeqsUpTo(S, n) == UNION {[1..k -> S] : k \in 0..n}
Cat(f) == Flatten([i \in 1..Len(f) |-> f[i]])

Alphabet ==
    {"a", " ", "\t", "\n", "\r", "#", "*", BQ, "_", "~", "[", "]", "(", ")", "!", ">", "-",
     ".", "|", ":", "+", "1"}

\* every text of at most MaxLen characters
ShortInputs == {Cat([i \in 1..Len(f) |-> <<f[i]>>]) : f \in SeqsUpTo(Alphabet, MaxLen)}

\* a run of 1..MaxRun identical marker characters, alone or inside a line
RunInputs ==
    {pre \o Repeat(c, n) \o post :
        pre \in {<<>>, <<"a">>}, c \in {"#", "*", "_", "~", BQ}, n \in 1..MaxRun,
        post \in {<<>>, <<"a">>, <<" ", "a">>, <<"\n">>}}

\* up to MaxItems list lines: item lines ending in one or two line feeds, a line of
\* hyphens, and item lines followed by a line that holds one space
ItemLines ==
    {m \o <<"a">> \o e :
        m \in {<<"1", ".", " ">>, <<"-", " ">>, <<"+", " ">>, <<"1", " ">>},
        e \in {<<"\n">>, <<"\n", "\n">>}}
    \cup {<<"-", "-", "-", "\n">>, <<"-", " ", "a", "\n", " ", "\n">>,
          <<"2", ".", " ", "a", "\n", " ", "\n">>}
ListInputs == {Cat(f) : f \in SeqsUpTo(ItemLines, MaxItems)}

\* up to MaxPieces inline pieces on one or two lines
InlinePieces ==
    {<<"[", "a", "]", "(", "b", ")">>, <<"[", "a", "]">>, <<"(">>, <<"[">>, <<"!">>, <<"*">>,
     <<"*", "*">>, <<"_">>, <<"~", "~">>, <<BQ>>, <<"a">>, <<" ">>, <<"\n">>}
PieceInputs == {Cat(f) : f \in SeqsUpTo(InlinePieces, MaxPieces)}

\* digit runs around the 32-bit boundary, at several source positions
DigitPieces ==
    {<<"0">>, <<"9">>, <<"4", "2", "9", "4", "9", "6", "7", "2", "9", "5">>,
     <<"4", "2", "9", "4", "9", "6", "7", "2", "9", "6">>,
     <<"4", "2", "9", "4", "9", "6", "7", "3">>, <<"1", "0", "0", "0", "0", "0">>}
DigitInputs ==
    {pre \o Cat(f) \o post :
        pre \in {<<>>, <<"a">>, <<"a", " ">>, <<"\n">>, <<"a", "\r", "\n", "-">>, <<"a", "\r">>},
        f \in SeqsUpTo(DigitPieces, MaxDigitPieces) \ {<<>>},
        post \in {<<>>, <<".", " ", "a">>, <<BQ>>}}

\* up to MaxItems table lines: rows with padded, adjacent and empty cells, a row
\* with a blank after its last pipe, a separator row, a line that is no row and a
\* line of hyphens
TableLines ==
    {<<"|", "a", "|", "\n">>, <<"|", " ", "a", " ", "|", "a", " ", "a", "|", "\n">>,
     <<"|", "a", "|", "|", "a", "|", "\n">>, <<"|", "-", "|", "-", "|", "\n">>,
     <<"|", "a", "|", " ", "\n">>, <<"*", "\n">>, <<"-", "-", "-", "\n">>}
TableInputs == {Cat(f) : f \in SeqsUpTo(TableLines, MaxItems)}

\* absolute URLs and near misses, alone and inside a line
UrlPieces ==
    {<<"h", "t", "t", "p", ":", "/", "/", "a", ".", "a">>,
     <<"h", "t", "t", "p", "s", ":", "/", "/", "a">>,
     <<"f", "t", "p", ":", "/", "/", "a">>,
     <<"m", "a", "i", "l", "t", "o", ":", "a">>,
     <<"h", "t", "t", "p", ":", "a">>}
UrlInputs ==
    {pre \o u \o post :
        pre \in {<<>>, <<"a", " ">>, <<"[", "a", "]", "(">>, <<"a">>},
        u \in UrlPieces,
        post \in {<<>>, <<")">>, <<" ", "a">>, <<".">>, <<"+", "a">>}}

\* two lines with one or two line ends between them: the first opens a paragraph, the
\* second starts a block, goes on with the paragraph or closes a bracket of the first
BreakInputs ==
    {fst \o nl \o snd :
        fst \in {<<"a">>, <<"[", "a">>, <<"*", "a", "*">>, <<"[", "a", "]", "(", "b">>,
                 <<"*", "[", "a">>},
        nl \in {<<"\n">>, <<"\n", "\n">>, <<"\n", " ", "\n">>},
        snd \in {<<>>, <<"a">>, <<"#", " ", "a">>, <<" ", "#", "a">>, <<"1", ".", " ", "a">>,
                 <<"-", " ", "a">>, <<"+", " ", "a">>, <<">", "a">>, <<"|", "a", "|">>,
                 <<BQ, BQ, BQ>>, <<BQ, BQ>>, <<"*", "a", "*">>, <<".", "a">>,
                 <<"b", "]", "(", "c", ")">>, <<"#", "b", "]", "(", "c", ")">>,
                 <<"c", ")">>, <<"-", "c", ")">>, <<"b", "]", "(", "c", ")", "*">>}}

\* a marker of three characters, text, and the same marker, another one or none,
\* on the same line or on the next
TripleInputs ==
    {pre \o open \o mid \o close \o post :
        pre \in {<<>>, <<"a", " ">>},
        open \in {<<"*", "*", "*">>, <<"_", "_", "_">>},
        mid \in {<<>>, <<"a">>, <<"a", " ", "a">>, <<"a", "\n">>},
        close \in {<<>>, <<"*", "*", "*">>, <<"_", "_", "_">>, <<"*", "*">>},
        post \in {<<>>, <<"a">>}}

\* a fence line, with or without a language, code lines and a closing fence of three
\* to five backticks or none
FenceInputs ==
    {open \o <<"\n">> \o body \o close :
        open \in {<<BQ, BQ, BQ>>, <<BQ, BQ, BQ, BQ>>, <<BQ, BQ, BQ, "a">>,
                  <<BQ, BQ, BQ, " ", "a">>, <<BQ, BQ, BQ, "a", " ", "b">>},
        body \in {<<>>, <<"a", "\n">>, <<"#", " ", "a", "\n">>, <<"a", "\n", "\n", "1", ".", "\n">>,
                  <<BQ, "a", BQ, "\n">>, <<"*", "a", "\n">>, <<"a", BQ, BQ, "\n">>},
        close \in {<<>>, <<BQ, BQ, BQ>>, <<BQ, BQ, BQ, BQ>>, <<BQ, BQ, BQ, BQ, BQ>>,
                   <<BQ, BQ, BQ, "\n", "a">>}}

\* up to MaxItems quoted lines: with and without a blank after the `>`, with a second
\* `>`, empty, and followed by an empty line or by a line that holds one space
QuoteLines ==
    {<<">", " ", "a", "\n">>, <<">", "a", " ", "a", "\n">>, <<">", ">", " ", "a", "\n">>,
     <<">", " ", "a", "\n", "\n">>, <<">", " ", "a", "\n", " ", "\n">>, <<">", "\n">>,
     <<"\t">>}
QuoteInputs == {Cat(f) : f \in SeqsUpTo(QuoteLines, MaxItems)}

TextInputs ==
    ShortInputs \cup RunInputs \cup ListInputs \cup PieceInputs \cup DigitInputs
        \cup TableInputs \cup UrlInputs \cup BreakInputs \cup TripleInputs \cup FenceInputs
        \cup QuoteInputs

TokenAlphabet ==
    {TText(<<"a">>), TWhitespace, TNewline, TEof, TCount("Hash", 0), TCount("Hash", 1),
     TCount("Hash", 7),
     TNumber([hi |-> 0, lo |-> 1]), TSimple("Dot"), TSimple("Pipe"), TCount("Backtick", 3),
     TCount("Asterisk", 1), TSimple("LeftBracket"), TSimple("RightBracket"),
     TSimple("LeftParen"), TSimple("Exclamation")}

TokenInputs == {Cat([i \in 1..Len(f) |-> <<f[i]>>]) : f \in SeqsUpTo(TokenAlphabet, MaxTokens)}

(***************************************************************************)
(* The state machine: tokenize one token at a time, parse one block at a   *)
(* time, then the entry points return.                                     *)
(***************************************************************************)
\* no BackgroundSearcher has been built
(***************************************************************************)
(* FileList::new (src/ui/components/file_list.rs): the first file is       *)
(* selected when there is one, ten items per page until the first frame.   *)
(* A file is modelled by its position in the vector handed to new.         *)
(***************************************************************************)
NoIndex == [some |-> FALSE, index |-> 0]
SomeIndex(i) == [some |-> TRUE, index |-> i]

FileListNew(files) ==
    [files |-> files,
     filtered_files |-> files,
     selected |-> IF files # <<>> THEN SomeIndex(0) ELSE NoIndex,
     items_per_page |-> 10,
     current_page |-> 0,
     search_query |-> "",
     is_searching |-> FALSE,
     search_input_mode |-> FALSE]

NoFileList ==
    /\ file_list = FileListNew(<<>>)
    /\ lpc = "none"

NoSearcher ==
    /\ dir = [ok |-> TRUE, entries |-> <<>>, show_hidden |-> FALSE, show_all |-> FALSE]
    /\ wpc = "none"
    /\ wi = 0
    /\ chan = <<>>
    /\ sent = <<>>
    /\ rpc = "none"
    /\ messages = <<>>
    /\ is_complete = FALSE
    /\ delivered = <<>>

Init ==
    /\ \/ /\ mode = "text"
          /\ input \in TextInputs
          /\ tokens = <<>>
          /\ pc = "tokenize"
       \/ /\ mode = "tokens"
          /\ input = <<>>
          /\ tokens \in TokenInputs
          /\ pc = "parse"
    /\ lx = LexerNew
    /\ lexResult = NoResult
    /\ ps = ParserNew
    /\ children = <<>>
    /\ result = NoResult
    /\ ret = NoResult
    /\ call = 1
    /\ first = NoResult
    /\ NoSearcher
    /\ NoFileList

\* one iteration of the loop of Lexer::tokenize
TokenizeStep ==
    /\ pc = "tokenize"
    /\ \E r \in {next_token(input, lx)} :
          /\ lx' = r.L
          /\ tokens' = IF r.ok THEN Append(tokens, r.tok) ELSE <<>>
          /\ lexResult' = IF ~r.ok THEN ErrResult(r.err)
                          ELSE IF r.tok.kind = "Eof" THEN OkTokens(Append(tokens, r.tok))
                          ELSE lexResult
          /\ pc' = IF ~r.ok THEN "return" ELSE IF r.tok.kind = "Eof" THEN "parse" ELSE pc
    /\ UNCHANGED <<mode, input, ps, children, result, ret, call, first>>
    /\ UNCHANGED <<searchVars, listVars>>

AfterParse == IF mode = "text" THEN "return" ELSE "done"

\* one iteration of the loop of Parser::parse; a parse_block that never returns
\* leaves the parser spinning
ParseBlockStep ==
    /\ pc = "parse"
    /\ ~is_at_end(tokens, ps)
    /\ \E r \in {parse_block(tokens, ps)} :
          /\ ps' = r.P
          /\ children' = IF r.ok /\ r.some THEN Append(children, r.node) ELSE children
          /\ result' = IF r.ok \/ r.err = NeverReturns THEN result ELSE ErrResult(r.err)
          /\ pc' = IF r.ok THEN pc ELSE IF r.err = NeverReturns THEN "spinning" ELSE AfterParse
    /\ UNCHANGED <<mode, input, lx, tokens, lexResult, ret, call, first>>
    /\ UNCHANGED <<searchVars, listVars>>

\* the loop of Parser::parse ends: Ok(Document { children })
ParseReturn ==
    /\ pc = "parse"
    /\ is_at_end(tokens, ps)
    /\ result' = OkDoc(Document(children))
    /\ pc' = AfterParse
    /\ UNCHANGED <<mode, input, lx, tokens, lexResult, ps, children, ret, call, first>>
    /\ UNCHANGED <<searchVars, listVars>>

\* what each of the four text entry points returns for this input, and the text
\* that text_content gives for the Document parse_markdown returns (empty when it fails)
EntryPointsReturn ==
    /\ pc = "return"
    /\ ret' = [kind |-> "Returned",
               text_content |-> IF parse_markdown(lexResult, result).kind = "Ok"
                                THEN text_content(parse_markdown(lexResult, result).doc)
                                ELSE <<>>,
               parse_markdown |-> parse_markdown(lexResult, result),
               parse_markdown_or_default |-> parse_markdown_or_default(lexResult, result),
               parser_parse_markdown |-> parser_parse_markdown(lexResult, result),
               parser_parse_markdown_or_default |->
                   parser_parse_markdown_or_default(lexResult, result)]
    /\ pc' = "done"
    /\ UNCHANGED <<mode, input, lx, tokens, lexResult, ps, children, result, call, first>>
    /\ UNCHANGED <<searchVars, listVars>>

\* a second call that goes on with the Lexer of the first call
SecondCall_SameLexer ==
    /\ pc = "done"
    /\ mode = "text"
    /\ call = 1
    /\ call' = 2
    /\ first' = ret
    /\ tokens' = <<>>
    /\ lexResult' = NoResult
    /\ ps' = ParserNew
    /\ children' = <<>>
    /\ result' = NoResult
    /\ ret' = NoResult
    /\ pc' = "tokenize"
    /\ UNCHANGED <<mode, input, lx>>
    /\ UNCHANGED <<searchVars, listVars>>

\* the caller calls the entry points again on the same text: tokenize builds a new
\* Lexer (Lexer::new), parse_tokens a new Parser (Parser::new), and the vectors are
\* locals of the new calls
SecondCall ==
    /\ pc = "done"
    /\ mode = "text"
    /\ call = 1
    /\ call' = 2
    /\ first' = ret
    /\ lx' = LexerNew
    /\ tokens' = <<>>
    /\ lexResult' = NoResult
    /\ ps' = ParserNew
    /\ children' = <<>>
    /\ result' = NoResult
    /\ ret' = NoResult
    /\ pc' = "tokenize"
    /\ UNCHANGED <<mode, input>>
    /\ UNCHANGED <<searchVars, listVars>>

Next == TokenizeStep \/ ParseBlockStep \/ ParseReturn \/ EntryPointsReturn \/ SecondCall

Spec == Init /\ [][Next]_vars

(***************************************************************************)
(* BackgroundSearcher: a worker thread walks the directory and sends       *)
(* messages through a channel; the owner polls with try_recv.              *)
(***************************************************************************)
FileFound(i) == [kind |-> "FileFound", file |-> i]
Finished == [kind |-> "Finished"]
Error == [kind |-> "Error"]

\* what WalkDir can yield: a markdown file, one below an ignored directory, one below
\* a hidden directory, a file that is no markdown file, an entry that cannot be read
EntryKinds == {"md", "md_ignored", "md_hidden", "other", "unreadable"}

\* the entry passes every `continue` of the loop body of search_files
Sends(d, entry) ==
    \/ entry = "md"
    \/ entry = "md_ignored" /\ d.show_all
    \/ entry = "md_hidden" /\ (d.show_all \/ d.show_hidden)

\* no parse is under way
NoParse ==
    /\ mode = "search"
    /\ input = <<>>
    /\ lx = LexerNew
    /\ tokens = <<>>
    /\ lexResult = NoResult
    /\ ps = ParserNew
    /\ children = <<>>
    /\ result = NoResult
    /\ ret = NoResult
    /\ pc = "search"
    /\ call = 1
    /\ first = NoResult

\* BackgroundSearcher::new: the channel is empty, the thread is spawned,
\* is_complete is false
SearchInit ==
    /\ NoParse
    /\ NoFileList
    /\ dir \in [ok : BOOLEAN, entries : SeqsUpTo(EntryKinds, MaxEntries),
                 show_hidden : BOOLEAN, show_all : BOOLEAN]
    /\ wpc = "expand_tilde"
    /\ wi = 0
    /\ chan = <<>>
    /\ sent = <<>>
    /\ rpc = "idle"
    /\ messages = <<>>
    /\ is_complete = FALSE
    /\ delivered = <<>>

\* tx.send(message): fails, and leaves no trace, once the receiver is dropped
Send(message) ==
    IF rpc = "dropped" THEN UNCHANGED <<chan, sent>>
    ELSE chan' = Append(chan, message) /\ sent' = Append(sent, message)

\* search_files: expand_tilde(directory)?
WorkerExpandTilde ==
    /\ wpc = "expand_tilde"
    /\ wpc' = IF dir.ok THEN "walk" ELSE "error"
    /\ UNCHANGED <<dir, wi, chan, sent, rpc, messages, is_complete, delivered>>
    /\ UNCHANGED <<parserVars, listVars>>

\* one iteration of `for entry in WalkDir::new(expanded_dir)`, or its end
WorkerWalk ==
    /\ wpc = "walk"
    /\ IF wi = Len(dir.entries)
       THEN wpc' = "finish" /\ UNCHANGED <<wi, chan, sent>>
       ELSE IF ~Sends(dir, dir.entries[wi + 1])
       THEN wi' = wi + 1 /\ UNCHANGED <<wpc, chan, sent>>
       ELSE /\ Send(FileFound(wi + 1))
            /\ wi' = wi + 1
            /\ wpc' = IF rpc = "dropped" THEN "finish" ELSE wpc
    /\ UNCHANGED <<dir, rpc, messages, is_complete, delivered>>
    /\ UNCHANGED <<parserVars, listVars>>

\* a worker that returns after the Error message
WorkerSendError_ThenExit ==
    /\ wpc = "error"
    /\ Send(Error)
    /\ wpc' = "exited"
    /\ UNCHANGED <<dir, wi, rpc, messages, is_complete, delivered>>
    /\ UNCHANGED <<parserVars, listVars>>

\* `if let Err(e) = Self::search_files(..) { let _ = tx.send(Error(e.to_string())); }`
WorkerSendError ==
    /\ wpc = "error"
    /\ Send(Error)
    /\ wpc' = "finish"
    /\ UNCHANGED <<dir, wi, rpc, messages, is_complete, delivered>>
    /\ UNCHANGED <<parserVars, listVars>>

\* `let _ = tx.send(SearchMessage::Finished);` and the thread ends
WorkerSendFinished ==
    /\ wpc = "finish"
    /\ Send(Finished)
    /\ wpc' = "exited"
    /\ UNCHANGED <<dir, wi, rpc, messages, is_complete, delivered>>
    /\ UNCHANGED <<parserVars, listVars>>

\* try_recv is called: `let mut messages = Vec::new();`
TryRecvCall ==
    /\ rpc = "idle"
    /\ rpc' = "draining"
    /\ messages' = <<>>
    /\ UNCHANGED <<dir, wpc, wi, chan, sent, is_complete, delivered>>
    /\ UNCHANGED <<parserVars, listVars>>

\* one iteration of `while let Ok(message) = self.receiver.try_recv()`
TryRecvMessage ==
    /\ rpc = "draining"
    /\ chan # <<>>
    /\ chan' = Tail(chan)
    /\ is_complete' = IF Head(chan) = Finished THEN TRUE ELSE is_complete
    /\ messages' = Append(messages, Head(chan))
    /\ UNCHANGED <<dir, wpc, wi, sent, rpc, delivered>>
    /\ UNCHANGED <<parserVars, listVars>>

\* receiver.try_recv() is Err (empty or disconnected): try_recv returns messages
TryRecvReturn ==
    /\ rpc = "draining"
    /\ chan = <<>>
    /\ delivered' = delivered \o messages
    /\ messages' = <<>>
    /\ rpc' = "idle"
    /\ UNCHANGED <<dir, wpc, wi, chan, sent, is_complete>>
    /\ UNCHANGED <<parserVars, listVars>>

\* the BackgroundSearcher is dropped, and its Receiver with it
DropSearcher ==
    /\ rpc = "idle"
    /\ rpc' = "dropped"
    /\ chan' = <<>>
    /\ UNCHANGED <<dir, wpc, wi, sent, messages, is_complete, delivered>>
    /\ UNCHANGED <<parserVars, listVars>>

Worker == WorkerExpandTilde \/ WorkerWalk \/ WorkerSendError \/ WorkerSendFinished
TryRecv == TryRecvCall \/ TryRecvMessage \/ TryRecvReturn

SearchNext ==
    \/ WorkerExpandTilde
    \/ WorkerWalk
    \/ WorkerSendError
    \/ WorkerSendFinished
    \/ TryRecvCall
    \/ TryRecvMessage
    \/ TryRecvReturn
    \/ DropSearcher

\* the worker thread is scheduled until it ends, and the owner keeps calling
\* try_recv for as long as it has not dropped the searcher
SearchSpec == SearchInit /\ [][SearchNext]_vars /\ WF_vars(Worker) /\ WF_vars(TryRecv)

(***************************************************************************)
(* Properties.                                                             *)
(***************************************************************************)
Returned == ret.kind = "Returned"

\* C1: for every text, both parse_markdown_or_default entry points return a Document,
\* never an error: the Document parse returned when tokenizing and parsing succeed,
\* and a Document without children when either fails.
C1_OrDefaultNeverFails ==
    Returned =>
        /\ ret.parse_markdown_or_default.kind = "Document"
        /\ ret.parser_parse_markdown_or_default.kind = "Document"
        /\ (lexResult.kind = "Ok" /\ result.kind = "Ok") =>
              /\ ret.parse_markdown.kind = "Ok"
              /\ ret.parse_markdown_or_default = ret.parse_markdown.doc
              /\ ret.parse_markdown_or_default = result.doc
              /\ ret.parser_parse_markdown.kind = "Ok"
              /\ ret.parser_parse_markdown_or_default = ret.parser_parse_markdown.doc
        /\ (lexResult.kind = "Err" \/ result.kind = "Err") =>
              /\ ret.parse_markdown.kind = "Err"
              /\ ret.parser_parse_markdown.kind = "Err"
              /\ ret.parse_markdown_or_default.children = <<>>
              /\ ret.parser_parse_markdown_or_default.children = <<>>

\* a digit run overflowed 32 bits and the fallback entry point returned the empty Document
C1_Witness ==
    /\ Returned
    /\ lexResult.kind = "Err"
    /\ lexResult.err.kind = "NumberTooLarge"
    /\ ret.parse_markdown_or_default = Document(<<>>)

\* an unmatched delimiter or a malformed link made parse fail and the fallback entry
\* point returned the empty Document
C1_WitnessParseError ==
    /\ Returned
    /\ result.kind = "Err"
    /\ result.err.kind \in {"UnmatchedDelimiter", "MalformedLink"}
    /\ ret.parse_markdown_or_default = Document(<<>>)

RECURSIVE NodeTyped(_)
AllInline(content) == \A i \in 1..Len(content) : is_inline(content[i]) /\ NodeTyped(content[i])
AllOfKind(nodes, kind) == \A i \in 1..Len(nodes) : nodes[i].kind = kind /\ NodeTyped(nodes[i])
NodeTyped(n) ==
    CASE n.kind = "Document" ->
            \A i \in 1..Len(n.children) : is_block(n.children[i]) /\ NodeTyped(n.children[i])
      [] n.kind \in {"Heading", "Paragraph", "ListItem", "BlockQuote", "TableCell", "Bold",
                     "Italic", "Strikethrough"} -> AllInline(n.content)
      [] n.kind = "Link" -> AllInline(n.text)
      [] n.kind = "Image" -> AllInline(n.alt)
      [] n.kind = "List" -> AllOfKind(n.items, "ListItem")
      [] n.kind = "Table" ->
            /\ AllOfKind(n.headers, "TableCell")
            /\ \A i \in 1..Len(n.rows) : AllOfKind(n.rows[i], "TableCell")
      [] OTHER -> TRUE

\* C2: whenever parse succeeds, on tokens from the lexer or given directly, the
\* children of the Document are block nodes, the content of every Heading, Paragraph,
\* ListItem, BlockQuote, TableCell, Bold, Italic, Strikethrough, Link text and Image
\* alt holds only inline nodes, List items are ListItems and Table headers and row
\* elements are TableCells, at every depth.
C2_AstWellTyped == result.kind = "Ok" => NodeTyped(result.doc)

HasKind(nodes, kind) == \E i \in 1..Len(nodes) : nodes[i].kind = kind

\* parse succeeded with a Paragraph that holds a Link with link text, next to a List
C2_Witness ==
    /\ result.kind = "Ok"
    /\ \E i \in 1..Len(result.doc.children) :
          LET c == result.doc.children[i] IN
          /\ c.kind = "Paragraph"
          /\ \E j \in 1..Len(c.content) : c.content[j].kind = "Link" /\ c.content[j].text # <<>>

(***************************************************************************)
(* Digit runs of the text, read off the text itself.                       *)
(***************************************************************************)
\* the characters a text run never contains after its first, so that a text run
\* cannot reach position i from j unless none of them lies between
NoStopBetween(inp, j, i) == \A k \in j..(i - 1) : inp[k] \notin TextStops

\* a digit at position i starts a maximal digit run that is not inside a text run
StartsDigitToken(inp, i) ==
    /\ inp[i] \in Digits
    /\ i = 1 \/ inp[i - 1] \notin Digits
    /\ \A j \in 1..(i - 1) : NoStopBetween(inp, j, i) => inp[j] \in Digits \cup {".", ":"}

RECURSIVE DigitRunAt(_, _)
DigitRunAt(inp, i) ==
    IF i <= Len(inp) /\ inp[i] \in Digits THEN <<inp[i]>> \o DigitRunAt(inp, i + 1) ELSE <<>>

RECURSIVE StripZeros(_)
StripZeros(d) == IF Len(d) > 1 /\ Head(d) = "0" THEN StripZeros(Tail(d)) ELSE d

U32MaxDigits == <<"4", "2", "9", "4", "9", "6", "7", "2", "9", "5">>

\* d and m are digit strings of the same length: d denotes a larger number than m
RECURSIVE DigitsGreater(_, _)
DigitsGreater(d, m) ==
    IF d = <<>> THEN FALSE
    ELSE IF DigitVal(Head(d)) # DigitVal(Head(m)) THEN DigitVal(Head(d)) > DigitVal(Head(m))
    ELSE DigitsGreater(Tail(d), Tail(m))

AboveU32Max(d) ==
    LET z == StripZeros(d) IN
    \/ Len(z) > Len(U32MaxDigits)
    \/ Len(z) = Len(U32MaxDigits) /\ DigitsGreater(z, U32MaxDigits)

DigitTokenStarts(inp) == {i \in 1..Len(inp) : StartsDigitToken(inp, i)}
OverflowStarts(inp) == {i \in DigitTokenStarts(inp) : AboveU32Max(DigitRunAt(inp, i))}
MinOf(S) == CHOOSE x \in S : \A y \in S : x <= y

\* 1-based line and column of position i, lines ending at each line feed
LineOf(inp, i) == 1 + Cardinality({k \in 1..(i - 1) : inp[k] = "\n"})
ColumnOf(inp, i) ==
    LET nl == {k \in 1..(i - 1) : inp[k] = "\n"} IN
    IF nl = {} THEN i ELSE i - (CHOOSE k \in nl : \A m \in nl : m <= k)

RECURSIVE SelectKind(_, _)
SelectKind(toks, kind) ==
    IF toks = <<>> THEN <<>>
    ELSE (IF Head(toks).kind = kind THEN <<Head(toks)>> ELSE <<>>) \o SelectKind(Tail(toks), kind)

RECURSIVE SortedSeq(_)
SortedSeq(S) == IF S = {} THEN <<>> ELSE <<MinOf(S)>> \o SortedSeq(S \ {MinOf(S)})

Tokenized == mode = "text" /\ lexResult.kind # "None"

C3_WitnessMax ==
    /\ Tokenized
    /\ lexResult.kind = "Ok"
    /\ \E k \in 1..Len(lexResult.tokens) :
          lexResult.tokens[k] = TNumber([hi |-> U32MaxHi, lo |-> U32MaxLo])

\* C4: tokenize finishes on every text: each iteration of its loop either returns or
\* consumes at least one character, and never reads past the end of the text, so that
\* it returns after at most Len(input) + 1 iterations; whenever it succeeds the tokens
\* it returns hold exactly one Eof, as their last element, and the empty text gives
\* <<Eof>>.
C4_EndsWithOneEof ==
    /\ [](lx.pos <= Len(input))
    /\ [][pc = "tokenize" => (lexResult'.kind # "None" \/ lx'.pos > lx.pos)]_vars
    /\ [](Tokenized /\ lexResult.kind = "Ok" =>
            /\ Len(lexResult.tokens) >= 1
            /\ lexResult.tokens[Len(lexResult.tokens)] = TEof
            /\ Len(SelectKind(lexResult.tokens, "Eof")) = 1
            /\ (input = <<>> => lexResult.tokens = <<TEof>>))

\* tokenize returned several tokens ending in Eof
C4_Witness ==
    /\ Tokenized
    /\ lexResult.kind = "Ok"
    /\ Len(lexResult.tokens) >= 4
    /\ lexResult.tokens[Len(lexResult.tokens)] = TEof

(***************************************************************************)
(* Marker runs of the text, read off the text itself.                      *)
(***************************************************************************)
MarkerCap(c) ==
    CASE c = "#" -> HashCap [] c = "*" -> AsteriskCap [] c = "_" -> UnderscoreCap
      [] c = "~" -> TildeCap [] c = BQ -> BacktickCap

MarkerKind(c) ==
    CASE c = "#" -> "Hash" [] c = "*" -> "Asterisk" [] c = "_" -> "Underscore"
      [] c = "~" -> "Tilde" [] c = BQ -> "Backtick"

MarkerChars == {"#", "*", "_", "~", BQ}

RECURSIVE RunLength(_, _, _)
RunLength(inp, i, c) == IF i <= Len(inp) /\ inp[i] = c THEN 1 + RunLength(inp, i + 1, c) ELSE 0

\* the counts the claim expects for a run of n markers under a cap
ExpectedCounts(n, cap) ==
    [k \in 1..(n \div cap) |-> cap] \o (IF n % cap # 0 THEN <<n % cap>> ELSE <<>>)

\* the expected counts of all maximal runs of c in the text, in source order
RECURSIVE ExpectedFrom(_, _, _)
ExpectedFrom(inp, i, c) ==
    IF i > Len(inp) THEN <<>>
    ELSE IF inp[i] = c
         THEN LET n == RunLength(inp, i, c) IN
              ExpectedCounts(n, MarkerCap(c)) \o ExpectedFrom(inp, i + n, c)
         ELSE ExpectedFrom(inp, i + 1, c)

CountsOf(toks) == [k \in 1..Len(toks) |-> toks[k].n]

\* C5: when tokenize succeeds, each maximal run of n marker characters (# cap 6,
\* * cap 3, _ cap 3, ~ cap 3, ` cap 4) has become floor(n/cap) tokens of count cap
\* followed by one token of count n mod cap when that is not zero, in source order;
\* no marker token has count 0 or a count above its cap.
C5_MarkerRuns ==
    (Tokenized /\ lexResult.kind = "Ok") =>
        \A c \in MarkerChars :
            LET toks == SelectKind(lexResult.tokens, MarkerKind(c)) IN
            /\ CountsOf(toks) = ExpectedFrom(input, 1, c)
            /\ \A k \in 1..Len(toks) : toks[k].n >= 1 /\ toks[k].n <= MarkerCap(c)

\* a run of thirteen hashes became Hash(6), Hash(6), Hash(1)
C5_Witness ==
    /\ Tokenized
    /\ lexResult.kind = "Ok"
    /\ CountsOf(SelectKind(lexResult.tokens, "Hash")) = <<6, 6, 1>>

(***************************************************************************)
(* Shapes of token vectors and of documents.                               *)
(***************************************************************************)
\* parse has returned, with a Document or with an error
Parsed == result.kind # "None"

\* a parser positioned on token i
ParserAt(i) == [current |-> i - 1, line |-> 1, column |-> i]

KindAt(toks, i) == IF i >= 1 /\ i <= Len(toks) THEN toks[i].kind ELSE "None"
IndicesOf(toks, kinds) == {i \in 1..Len(toks) : toks[i].kind \in kinds}

RECURSIVE CountKind(_, _)
RECURSIVE CountKindSeq(_, _)
NodeChildren(n) ==
    CASE n.kind = "Document" -> n.children
      [] n.kind \in {"Heading", "Paragraph", "ListItem", "BlockQuote", "TableCell", "Bold",
                     "Italic", "Strikethrough"} -> n.content
      [] n.kind = "Link" -> n.text
      [] n.kind = "Image" -> n.alt
      [] n.kind = "List" -> n.items
      [] n.kind = "Table" -> n.headers \o Flatten(n.rows)
      [] OTHER -> <<>>
\* the number of nodes of one kind in a tree
CountKind(n, kind) == (IF n.kind = kind THEN 1 ELSE 0) + CountKindSeq(NodeChildren(n), kind)
CountKindSeq(nodes, kind) ==
    IF nodes = <<>> THEN 0 ELSE CountKind(Head(nodes), kind) + CountKindSeq(Tail(nodes), kind)

PrecededByExclamation(toks, i) == KindAt(toks, i - 1) = "Exclamation"

\* C8: a left bracket handed to parse_link_or_image comes back as an Image exactly when
\* the token right before it is Exclamation and as a Link otherwise, also when it is
\* the first token and when whitespace separates `!` and `[`; and a Document parsed
\* from tokens with a single bracket, before any Eof and outside code and tables, holds
\* exactly that one Image or Link.
C8_ImageIffExclamation ==
    pc # "tokenize" =>
        /\ \A i \in IndicesOf(tokens, {"LeftBracket"}) :
              \A r \in {parse_link_or_image(tokens, ParserAt(i))} :
                 r.ok => r.node.kind = IF PrecededByExclamation(tokens, i) THEN "Image" ELSE "Link"
        /\ ( /\ result.kind = "Ok"
             /\ Cardinality(IndicesOf(tokens, {"LeftBracket"})) = 1
             /\ IndicesOf(tokens, {"Backtick", "Pipe"}) = {} ) =>
              \A i \in IndicesOf(tokens, {"LeftBracket"}) :
                 (\A e \in IndicesOf(tokens, {"Eof"}) : e > i) =>
                 /\ CountKind(result.doc, "Image") = IF PrecededByExclamation(tokens, i) THEN 1 ELSE 0
                 /\ CountKind(result.doc, "Link") = IF PrecededByExclamation(tokens, i) THEN 0 ELSE 1

\* `! [a](b)`: whitespace between the exclamation mark and the bracket gave a Link
C8_Witness ==
    /\ result.kind = "Ok"
    /\ \E i \in IndicesOf(tokens, {"LeftBracket"}) :
          KindAt(tokens, i - 1) = "Whitespace" /\ KindAt(tokens, i - 2) = "Exclamation"
    /\ CountKind(result.doc, "Link") = 1
    /\ CountKind(result.doc, "Image") = 0

\* `![a](b)` gave an Image
C8_WitnessImage ==
    /\ result.kind = "Ok"
    /\ \E i \in IndicesOf(tokens, {"LeftBracket"}) : PrecededByExclamation(tokens, i)
    /\ CountKind(result.doc, "Image") = 1

(***************************************************************************)
(* Spans: emphasis, strikethrough and inline code, read off the tokens.    *)
(***************************************************************************)
SpanOpener(tok) ==
    \/ tok.kind \in {"Asterisk", "Underscore"} /\ tok.n \in {1, 2}
    \/ tok.kind = "Tilde" /\ tok.n = 2
    \/ tok.kind = "Backtick" /\ tok.n = 1

DelimiterOf(tok) ==
    CASE tok.kind = "Asterisk" -> "*"
      [] tok.kind = "Underscore" -> "_"
      [] tok.kind = "Tilde" -> "~"
      [] tok.kind = "Backtick" -> BQ

SameMarker(open, tok) == tok.kind = open.kind /\ tok.n = open.n

\* the first index from j on that holds the opener's marker again, a Newline or an
\* Eof; Len(toks) + 1 when there is none
RECURSIVE SpanEnd(_, _, _)
SpanEnd(toks, open, j) ==
    IF j > Len(toks) THEN j
    ELSE IF SameMarker(open, toks[j]) \/ toks[j].kind \in {"Newline", "Eof"} THEN j
    ELSE SpanEnd(toks, open, j + 1)

SpanClosed(toks, i, e) == e <= Len(toks) /\ SameMarker(toks[i], toks[e])

\* only text and whitespace lie strictly between i and e
PlainBetween(toks, i, e) == \A j \in (i + 1)..(e - 1) : toks[j].kind \in {"Text", "Whitespace"}

PlainNodesOf(toks, i, e) ==
    [j \in 1..(e - i - 1) |-> IF toks[i + j].kind = "Text" THEN Text(toks[i + j].s)
                                                          ELSE Text(<<" ">>)]
PlainCodeOf(toks, i, e) ==
    Flatten([j \in 1..(e - i - 1) |-> IF toks[i + j].kind = "Text" THEN toks[i + j].s
                                                                  ELSE <<" ">>])

\* the node a span from i to e over plain content stands for
SpanNode(toks, i, e) ==
    CASE toks[i].kind \in {"Asterisk", "Underscore"} /\ toks[i].n = 1 ->
            Italic(PlainNodesOf(toks, i, e))
      [] toks[i].kind \in {"Asterisk", "Underscore"} /\ toks[i].n = 2 ->
            Bold(PlainNodesOf(toks, i, e))
      [] toks[i].kind = "Tilde" -> Strikethrough(PlainNodesOf(toks, i, e))
      [] toks[i].kind = "Backtick" -> InlineCode(PlainCodeOf(toks, i, e))

ParseOver == pc \in {"return", "done"}

OpensWithSpan == pc # "tokenize" /\ tokens # <<>> /\ SpanOpener(tokens[1])

\* C6, for spans over text and whitespace: when a token is Asterisk(n) or Underscore(n),
\* n = 1 or 2 (or Tilde(2), or Backtick(1)) and only text and whitespace follow up to
\* the first token that is the same marker, a Newline, an Eof or the end of the tokens,
\* then parse_inline_content started on it returns, for a same marker there, Italic
\* (n = 1), Bold (n = 2), Strikethrough or InlineCode over exactly that content, and
\* for anything else there fails with UnmatchedDelimiter, its delimiter the opener's
\* own character, reported where the span ended.  When such a span opens the tokens,
\* the node is the first node of the first Paragraph of a Document that parse returns,
\* and the failure is the failure of the whole parse.
C6_PlainSpans ==
    pc # "tokenize" =>
        /\ \A i \in 1..Len(tokens) :
              SpanOpener(tokens[i]) =>
                 \A e \in {SpanEnd(tokens, tokens[i], i + 1)} :
                    PlainBetween(tokens, i, e) =>
                       parse_inline_content(tokens, ParserAt(i))
                         = IF SpanClosed(tokens, i, e)
                           THEN OkNodes(<<SpanNode(tokens, i, e)>>, ParserAt(e + 1))
                           ELSE Err(unmatched_delimiter(DelimiterOf(tokens[i]), 1, e),
                                    ParserAt(e))
        /\ OpensWithSpan =>
              \A e \in {SpanEnd(tokens, tokens[1], 2)} :
                 PlainBetween(tokens, 1, e) =>
                    IF SpanClosed(tokens, 1, e)
                    THEN result.kind = "Ok" =>
                            /\ result.doc.children[1].kind = "Paragraph"
                            /\ result.doc.children[1].content[1] = SpanNode(tokens, 1, e)
                    ELSE ParseOver =>
                            result = ErrResult(unmatched_delimiter(DelimiterOf(tokens[1]), 1, e))

\* `**a**` alone came back as a Paragraph holding Bold over the text
C6_Witness ==
    /\ result.kind = "Ok"
    /\ OpensWithSpan
    /\ tokens[1] = TCount("Asterisk", 2)
    /\ SpanClosed(tokens, 1, SpanEnd(tokens, tokens[1], 2))
    /\ result.doc.children = <<Paragraph(<<Bold(<<Text(<<"a">>)>>)>>)>>

\* `_a` followed by a line end failed with UnmatchedDelimiter for the underscore
C6_WitnessUnmatched ==
    /\ result.kind = "Err"
    /\ OpensWithSpan
    /\ tokens[1] = TCount("Underscore", 1)
    /\ KindAt(tokens, SpanEnd(tokens, tokens[1], 2)) = "Newline"
    /\ result.err = unmatched_delimiter("_", 1, 3)

\* C6 as the specification words it, whatever lies inside the span: a same marker
\* before the end of the line, with nothing but the end of input after it, gives a
\* Document, and a Newline or the end of input before any same marker makes the parse
\* fail with UnmatchedDelimiter for the opener's own character.
C6_AnySpanContent ==
    (OpensWithSpan /\ ParseOver) =>
        \A e \in {SpanEnd(tokens, tokens[1], 2)} :
           IF SpanClosed(tokens, 1, e)
           THEN (e + 1 = Len(tokens) /\ tokens[e + 1].kind = "Eof") => result.kind = "Ok"
           ELSE /\ result.kind = "Err"
                /\ result.err.kind = "UnmatchedDelimiter"
                /\ result.err.delimiter = DelimiterOf(tokens[1])

(***************************************************************************)
(* Brackets that open the tokens, read off the tokens.                     *)
(***************************************************************************)
\* the first index from j on whose token is of one of the kinds; Len(toks) + 1 if none
RECURSIVE FirstOf(_, _, _)
FirstOf(toks, kinds, j) ==
    IF j > Len(toks) \/ toks[j].kind \in kinds THEN j ELSE FirstOf(toks, kinds, j + 1)

\* the index of a bracket that opens the tokens, as a link or after `!` as an image;
\* 0 when the tokens open otherwise
OpeningBracket(toks) ==
    CASE KindAt(toks, 1) = "LeftBracket" -> 1
      [] KindAt(toks, 1) = "Exclamation" /\ KindAt(toks, 2) = "LeftBracket" -> 2
      [] OTHER -> 0

OwnMalformed(b) == IF b = 2 THEN "MalformedImage" ELSE "MalformedLink"

\* the end of the input: the first Eof, or the end of the tokens
InputEnd(toks) == FirstOf(toks, {"Eof"}, 1)

\* no closing bracket between b and the end of the input
NoRightBracket(toks, b) == FirstOf(toks, {"RightBracket"}, b + 1) >= InputEnd(toks)

\* text and whitespace up to a closing bracket, and no parenthesis right after it
NoLeftParen(toks, b) ==
    \E j \in {FirstOf(toks, {"RightBracket"}, b + 1)} :
       /\ j < InputEnd(toks)
       /\ PlainBetween(toks, b, j)
       /\ KindAt(toks, j + 1) # "LeftParen"

\* text and whitespace up to a closing bracket, a parenthesis right after it, and no
\* closing parenthesis between that and the end of the input
NoRightParen(toks, b) ==
    \E j \in {FirstOf(toks, {"RightBracket"}, b + 1)} :
       /\ j < InputEnd(toks)
       /\ PlainBetween(toks, b, j)
       /\ KindAt(toks, j + 1) = "LeftParen"
       /\ FirstOf(toks, {"RightParen"}, j + 2) >= InputEnd(toks)

\* a token between b and the end of the input that starts a span or another bracket
InnerOpener(toks, b) ==
    \E j \in (b + 1)..Len(toks) :
       /\ j < InputEnd(toks)
       /\ \/ toks[j].kind \in {"Asterisk", "Underscore", "LeftBracket"}
          \/ toks[j].kind = "Tilde" /\ toks[j].n = 2
          \/ toks[j].kind = "Backtick" /\ toks[j].n = 1

HasEof(toks) == InputEnd(toks) <= Len(toks)

C7_WitnessImage ==
    /\ ParseOver
    /\ OpeningBracket(tokens) = 2
    /\ HasEof(tokens)
    /\ NoRightBracket(tokens, 2)
    /\ result.kind = "Err"
    /\ result.err.kind = "MalformedImage"

\* the tokens `[`, `]`, `(` without Eof came back as a Document holding a Link
C7_WitnessNoEof ==
    /\ ParseOver
    /\ OpeningBracket(tokens) = 1
    /\ ~HasEof(tokens)
    /\ NoRightParen(tokens, 1)
    /\ result = OkDoc(Document(<<Paragraph(<<Link(<<>>, <<>>)>>)>>))

RECURSIVE SkipKinds(_, _, _)
SkipKinds(toks, kinds, j) ==
    IF j > Len(toks) \/ toks[j].kind \notin kinds THEN j ELSE SkipKinds(toks, kinds, j + 1)

\* from index j on: items `Number Dot text Newline`, any number of them, with line
\* ends between them, and then a Number that no Dot follows
RECURSIVE NumberWithoutDot(_, _)
NumberWithoutDot(toks, j) ==
    /\ KindAt(toks, j) = "Number"
    /\ \/ KindAt(toks, j + 1) # "Dot"
       \/ \E n \in {SkipKinds(toks, {"Text", "Whitespace"}, j + 2)} :
             /\ KindAt(toks, n) = "Newline"
             /\ NumberWithoutDot(toks, SkipKinds(toks, {"Newline"}, n))

\* the index of the token a block starts with, leading whitespace skipped
BlockStart(toks, P) == SkipKinds(toks, {"Whitespace"}, P.current + 1)

ExpectedDot == "Expected '.' after list number"

\* C10: when the block that parse is about to read starts with a Number that no Dot
\* follows right away, or with ordered items after which the next item does, that
\* step ends the whole parse with InvalidList: nothing is added to the children, no
\* Document is returned, and parse_markdown returns the failure.
C10_NumberWithoutDot ==
    /\ [][(pc = "parse" /\ NumberWithoutDot(tokens, BlockStart(tokens, ps))) =>
             /\ result'.kind = "Err"
             /\ result'.err.kind = "InvalidList"
             /\ result'.err.message = ExpectedDot
             /\ children' = children
             /\ pc' = AfterParse]_vars
    /\ []((result.kind = "Err" /\ ret.kind = "Returned") =>
             /\ ret.parse_markdown = ErrResult(MarkErrorParser(result.err))
             /\ ret.parser_parse_markdown = result)

\* the second item of an ordered list had no dot: parse failed with InvalidList and
\* parse_markdown returned the failure
C10_Witness ==
    /\ ret.kind = "Returned"
    /\ KindAt(tokens, 1) = "Number"
    /\ KindAt(tokens, 2) = "Dot"
    /\ result.kind = "Err"
    /\ result.err.kind = "InvalidList"
    /\ result.err.message = ExpectedDot
    /\ result.err.line = 2
    /\ children = <<>>
    /\ ret.parse_markdown.kind = "Err"

(***************************************************************************)
(* Lists, read off the lines of the text.                                  *)
(***************************************************************************)
WsChars == {" ", "\t"}
PlainChars == {"a"} \cup WsChars

\* the lines of a text: what stands between its line feeds
RECURSIVE LinesOf(_)
LinesOf(s) ==
    IF \A i \in 1..Len(s) : s[i] # "\n" THEN <<s>>
    ELSE LET k == CHOOSE i \in 1..Len(s) : s[i] = "\n" /\ \A j \in 1..(i - 1) : s[j] # "\n"
         IN  <<SubSeq(s, 1, k - 1)>> \o LinesOf(SubSeq(s, k + 1, Len(s)))

IsPlain(s) == \A i \in 1..Len(s) : s[i] \in PlainChars
IsWs(s) == \A i \in 1..Len(s) : s[i] \in WsChars

\* the index of the dot that ends the digits a line starts with; 0 if there is none
DotAfterDigits(l) ==
    IF \E k \in 2..Len(l) : l[k] = "." /\ \A j \in 1..(k - 1) : l[j] \in Digits
    THEN CHOOSE k \in 2..Len(l) : l[k] = "." /\ \A j \in 1..(k - 1) : l[j] \in Digits
    ELSE 0

\* `<digits>. text` and `- text` / `+ text`, the text being words and blanks
IsOrderedItem(l) == DotAfterDigits(l) > 0 /\ IsPlain(SubSeq(l, DotAfterDigits(l) + 1, Len(l)))
IsUnorderedItem(l) == Len(l) >= 1 /\ l[1] \in {"-", "+"} /\ IsPlain(SubSeq(l, 2, Len(l)))

ItemText(l) ==
    IF IsOrderedItem(l) THEN SubSeq(l, DotAfterDigits(l) + 1, Len(l)) ELSE SubSeq(l, 2, Len(l))

\* the length of the run of blanks (ws = TRUE) or of letters a plain text starts with
RECURSIVE SpanLength(_, _)
SpanLength(s, ws) ==
    IF s = <<>> \/ (s[1] \in WsChars) # ws THEN 0 ELSE 1 + SpanLength(Tail(s), ws)

\* the inline content of a plain text: a Text per word, a Text(" ") per run of blanks
RECURSIVE WordsAndBlanks(_)
WordsAndBlanks(s) ==
    IF s = <<>> THEN <<>>
    ELSE LET ws == s[1] \in WsChars
             n == SpanLength(s, ws)
         IN  <<IF ws THEN Text(<<" ">>) ELSE Text(SubSeq(s, 1, n))>>
                 \o WordsAndBlanks(SubSeq(s, n + 1, Len(s)))

\* the content of an item: the blanks after the marker are dropped
ItemContent(l) ==
    LET t == ItemText(l) IN WordsAndBlanks(SubSeq(t, SpanLength(t, TRUE) + 1, Len(t)))

\* what counts as a blank line: an empty line only, or a line of blanks as well
EmptyOnly == FALSE
WithBlanks == TRUE
IsBlank(l, blank) == IF blank = WithBlanks THEN IsWs(l) ELSE l = <<>>

ItemLinesOf(s, blank) == SelectSeq(LinesOf(s), LAMBDA l : ~IsBlank(l, blank))

\* n >= 1 item lines, all ordered or all unordered, and between them only lines
\* that are blank
ListOf(s, blank) ==
    LET items == ItemLinesOf(s, blank)
    IN  /\ Len(items) >= 1
        /\ \/ \A i \in 1..Len(items) : IsOrderedItem(items[i])
           \/ \A i \in 1..Len(items) : IsUnorderedItem(items[i])

ExpectedList(s, blank) ==
    LET items == ItemLinesOf(s, blank)
    IN  List(IsOrderedItem(items[1]), [i \in 1..Len(items) |-> ListItem(ItemContent(items[i]))])

\* the items of the Lists among the children of a document, in order
RECURSIVE ItemsOfLists(_)
ItemsOfLists(nodes) ==
    IF nodes = <<>> THEN <<>>
    ELSE (IF Head(nodes).kind = "List" THEN Head(nodes).items ELSE <<>>)
             \o ItemsOfLists(Tail(nodes))

C9_WitnessTwoLists ==
    /\ mode = "text"
    /\ ParseOver
    /\ ListOf(input, WithBlanks)
    /\ ~ListOf(input, EmptyOnly)
    /\ result.kind = "Ok"
    /\ CountKindSeq(result.doc.children, "List") = 2

\* a '-' line and a '+' line gave one unordered List of two items
C9_WitnessMixed ==
    /\ mode = "text"
    /\ ParseOver
    /\ ListOf(input, EmptyOnly)
    /\ \E i, j \in 1..Len(input) : i < j /\ input[i] = "-" /\ input[j] = "+"
    /\ result = OkDoc(Document(<<List(FALSE, <<ListItem(<<Text(<<"a">>)>>),
                                               ListItem(<<Text(<<"a">>)>>)>>)>>))

RECURSIVE SegmentsOf(_, _)
SegmentsOf(s, c) ==
    IF \A i \in 1..Len(s) : s[i] # c THEN <<s>>
    ELSE LET k == CHOOSE i \in 1..Len(s) : s[i] = c /\ \A j \in 1..(i - 1) : s[j] # c
         IN  <<SubSeq(s, 1, k - 1)>> \o SegmentsOf(SubSeq(s, k + 1, Len(s)), c)

\* a row: a line that starts with a pipe and holds pipes, words and blanks
IsRowLine(l) == Len(l) >= 1 /\ l[1] = "|" /\ \A i \in 1..Len(l) : l[i] \in PlainChars \cup {"|"}

\* the words of a plain text, one Text each
WordsOf(s) == SelectSeq(WordsAndBlanks(s), LAMBDA n : n.value # <<" ">>)

\* what stands between the pipes of a row, and after its last pipe
RowSegments(l) == SegmentsOf(SubSeq(l, 2, Len(l)), "|")

\* the cells of a row: one per segment that is not empty, holding its words
CellsOf(l) ==
    LET filled == SelectSeq(RowSegments(l), LAMBDA g : g # <<>>)
    IN  [i \in 1..Len(filled) |-> TableCell(WordsOf(filled[i]))]

\* the lines of a text, without the empty one after a final line feed
TableLinesOf(s) ==
    LET ls == LinesOf(s)
    IN  IF Len(ls) >= 2 /\ ls[Len(ls)] = <<>> THEN SubSeq(ls, 1, Len(ls) - 1) ELSE ls

\* a header row, any line at all after it, and rows after that
IsTableText(s) ==
    LET ls == TableLinesOf(s)
    IN  /\ IsRowLine(ls[1])
        /\ \A i \in 3..Len(ls) : IsRowLine(ls[i])

ExpectedTable(s) ==
    LET ls == TableLinesOf(s)
    IN  Table(CellsOf(ls[1]), [i \in 1..(Len(ls) - 2) |-> CellsOf(ls[i + 2])])

\* C11, a cell being what stands between two pipes when that is not empty: when the
\* text tokenizes and is a header row, one more line, and m rows, all rows starting
\* with a pipe and holding pipes, words and blanks, parse returns a Document whose
\* only child is one Table; its headers are the cells of the first line, its rows
\* the cells of the lines from the third on, in order, a cell holding the words
\* between its pipes.  The second line contributes nothing, whatever it holds.
\* Two adjacent pipes give no cell; blanks after the last pipe give an empty cell.
C11_TableOfRows ==
    (mode = "text" /\ ParseOver /\ lexResult.kind = "Ok" /\ IsTableText(input)) =>
        result = OkDoc(Document(<<ExpectedTable(input)>>))

\* a header of two cells, a separator and one row of two cells gave one Table
C11_Witness ==
    /\ mode = "text"
    /\ ParseOver
    /\ IsTableText(input)
    /\ Len(TableLinesOf(input)) = 3
    /\ \E i \in 1..Len(input) : input[i] = "-"
    /\ result.kind = "Ok"
    /\ Len(result.doc.children) = 1
    /\ result.doc.children[1].kind = "Table"
    /\ Len(result.doc.children[1].headers) = 2
    /\ Len(result.doc.children[1].rows) = 1
    /\ Len(result.doc.children[1].rows[1]) = 2

\* the line after the header looked like a row and still contributed nothing
C11_WitnessRowAsSeparator ==
    /\ mode = "text"
    /\ ParseOver
    /\ IsTableText(input)
    /\ Len(TableLinesOf(input)) = 2
    /\ IsRowLine(TableLinesOf(input)[2])
    /\ CellsOf(TableLinesOf(input)[2]) # <<>>
    /\ result.kind = "Ok"
    /\ result.doc.children[1].kind = "Table"
    /\ result.doc.children[1].rows = <<>>

\* a row that ends in a pipe
EndsInPipe(l) == IsRowLine(l) /\ Len(l) >= 2 /\ l[Len(l)] = "|"

\* C11 as stated, a cell being whatever stands between two pipes: a header row, a
\* second line and rows, all rows ending in a pipe, give one Table with as many
\* cells per row as the row has pipes after the first.
C11_CellPerPipe ==
    (/\ mode = "text" /\ ParseOver /\ lexResult.kind = "Ok" /\ IsTableText(input)
     /\ Len(TableLinesOf(input)) >= 2
     /\ \A i \in (1..Len(TableLinesOf(input))) \ {2} : EndsInPipe(TableLinesOf(input)[i])) =>
        /\ result.kind = "Ok"
        /\ Len(result.doc.children) = 1
        /\ result.doc.children[1].kind = "Table"
        /\ Len(result.doc.children[1].headers) = Len(RowSegments(TableLinesOf(input)[1])) - 1
        /\ Len(result.doc.children[1].rows) = Len(TableLinesOf(input)) - 2
        /\ \A i \in 1..Len(result.doc.children[1].rows) :
              Len(result.doc.children[1].rows[i]) = Len(RowSegments(TableLinesOf(input)[i + 2])) - 1

(***************************************************************************)
(* Heading levels.                                                         *)
(***************************************************************************)
\* the levels of the Headings of a tree
RECURSIVE HeadingLevels(_)
HeadingLevels(n) ==
    (IF n.kind = "Heading" THEN {n.level} ELSE {})
        \cup UNION {HeadingLevels(NodeChildren(n)[i]) : i \in 1..Len(NodeChildren(n))}

StartsWithHash == pc # "tokenize" /\ KindAt(tokens, 1) = "Hash"

\* C12: when the tokens start with Hash(level), a level outside 1..6 makes parse fail
\* with InvalidHeadingLevel carrying that level, and a successful parse has a Heading
\* of exactly that level as its first block; every Heading of a successfully parsed
\* tree has a level between 1 and 6.
C12_HeadingLevelOneToSix ==
    /\ (ParseOver /\ StartsWithHash /\ tokens[1].n \notin 1..6) =>
          /\ result.kind = "Err"
          /\ result.err.kind = "InvalidHeadingLevel"
          /\ result.err.level = tokens[1].n
    /\ (ParseOver /\ StartsWithHash /\ tokens[1].n \in 1..6 /\ result.kind = "Ok") =>
          /\ result.doc.children[1].kind = "Heading"
          /\ result.doc.children[1].level = tokens[1].n
    /\ (ParseOver /\ result.kind = "Ok") => HeadingLevels(result.doc) \subseteq 1..6

\* tokens that start with Hash(0) parsed to a Document whose first block is a
\* Heading of level 0
C12_WitnessLevelZero ==
    /\ ParseOver
    /\ StartsWithHash
    /\ tokens[1].n = 0
    /\ result.kind = "Ok"
    /\ result.doc.children[1].kind = "Heading"
    /\ result.doc.children[1].level = 0

\* what parse_heading does: levels above 6 fail with InvalidHeadingLevel, every
\* other level, 0 included, is the level of the Heading returned
C12_LevelAboveSixFails ==
    /\ (ParseOver /\ StartsWithHash /\ tokens[1].n > 6) =>
          result = ErrResult(invalid_heading_level(tokens[1].n, 1, 1))
    /\ (ParseOver /\ StartsWithHash /\ tokens[1].n <= 6 /\ result.kind = "Ok") =>
          /\ result.doc.children[1].kind = "Heading"
          /\ result.doc.children[1].level = tokens[1].n
    /\ (ParseOver /\ result.kind = "Ok") => HeadingLevels(result.doc) \subseteq 0..6

(***************************************************************************)
(* Runs of more than six '#'.                                              *)
(***************************************************************************)
\* the text is n '#' characters, then words and blanks, then at most one line feed
HashLine(n) ==
    /\ Len(input) >= n
    /\ \A i \in 1..n : input[i] = "#"
    /\ Len(input) > n => input[n + 1] # "#"
    /\ \E e \in {<<>>, <<"\n">>} : \E k \in n..Len(input) :
          /\ input = SubSeq(input, 1, k) \o e
          /\ IsPlain(SubSeq(input, n + 1, k))

\* what follows the '#' characters on the line
AfterHashes(n) == SelectSeq(SubSeq(input, n + 1, Len(input)), LAMBDA c : c # "\n")

RECURSIVE Collapse(_)
Collapse(s) ==
    IF s = <<>> THEN <<>>
    ELSE IF s[1] \in WsChars
         THEN <<" ">> \o Collapse(SubSeq(s, SpanLength(s, TRUE) + 1, Len(s)))
         ELSE <<s[1]>> \o Collapse(Tail(s))

\* words of the given characters with blanks between them, the first word starting
\* with a letter
WordsOver(s, chars) ==
    /\ s # <<>>
    /\ s[1] = "a"
    /\ s[Len(s)] \notin WsChars
    /\ \A i \in 1..Len(s) : s[i] \in chars \cup WsChars

\* C14: for a text of words of letters and digits with blanks between them that
\* tokenizes, parse_markdown returns a Document of one Paragraph whose text_content is the
\* text with each run of blanks collapsed to one space.
C14_TextContentRoundTrip ==
    (/\ mode = "text" /\ ret.kind = "Returned" /\ lexResult.kind = "Ok"
     /\ WordsOver(input, {"a"} \cup Digits)) =>
        /\ ret.parse_markdown.kind = "Ok"
        /\ Len(ret.parse_markdown.doc.children) = 1
        /\ ret.parse_markdown.doc.children[1].kind = "Paragraph"
        /\ text_content(ret.parse_markdown.doc.children[1]) = Collapse(input)
        /\ ret.text_content = Collapse(input)

\* the text `a 0` came back as a Paragraph whose text_content is `a `: the digit
\* is lost
C14_WitnessDigitLost ==
    /\ mode = "text"
    /\ ret.kind = "Returned"
    /\ input = <<"a", " ", "0">>
    /\ ret.parse_markdown = OkDoc(Document(<<Paragraph(<<Text(<<"a">>), Text(<<" ">>)>>)>>))
    /\ ret.text_content = <<"a", " ">>

\* what holds: the round trip for words of letters
C14_LetterWordsRoundTrip ==
    (mode = "text" /\ ret.kind = "Returned" /\ WordsOver(input, {"a"})) =>
        /\ ret.parse_markdown.kind = "Ok"
        /\ Len(ret.parse_markdown.doc.children) = 1
        /\ ret.parse_markdown.doc.children[1].kind = "Paragraph"
        /\ text_content(ret.parse_markdown.doc.children[1]) = Collapse(input)
        /\ ret.text_content = Collapse(input)

C15_WitnessTree ==
    /\ call = 2
    /\ ret.kind = "Returned"
    /\ ret = first
    /\ ret.parse_markdown.kind = "Ok"
    /\ Len(ret.parse_markdown.doc.children) >= 2

(***************************************************************************)
(* Lines and columns of the lexer.                                         *)
(***************************************************************************)
\* the positions up to n where a line terminator ends: a line feed, or a carriage
\* return that no line feed follows
TerminatorEnds(inp, n) ==
    {i \in 1..n : \/ inp[i] = "\n"
                  \/ inp[i] = "\r" /\ (i = Len(inp) \/ inp[i + 1] # "\n")}

MaxOf(S) == CHOOSE x \in S : \A y \in S : y <= x

\* 1-based line and column of position i, lines ending at each of the three terminators
SourceLine(inp, i) == 1 + Cardinality(TerminatorEnds(inp, i - 1))
SourceColumn(inp, i) == i - MaxOf(TerminatorEnds(inp, i - 1) \cup {0})

\* C16: between two tokens the lexer's line is 1 plus the number of Newline tokens
\* emitted so far and its column is 1 plus the number of characters consumed since
\* the last of them, the terminators being LF, CR LF and a lone CR, each emitted as
\* one Newline token; and a NumberTooLarge error carries the line and column, so
\* counted, of the first digit of its run.
C16_LineColumnAllTerminators ==
    /\ (mode = "text" /\ pc = "tokenize") =>
          /\ Len(SelectKind(tokens, "Newline")) = Cardinality(TerminatorEnds(input, lx.pos))
          /\ lx.line = 1 + Len(SelectKind(tokens, "Newline"))
          /\ lx.column = SourceColumn(input, lx.pos + 1)
    /\ (Tokenized /\ lexResult.kind = "Err") =>
          /\ lexResult.err.line = SourceLine(input, MinOf(OverflowStarts(input)))
          /\ lexResult.err.column = SourceColumn(input, MinOf(OverflowStarts(input)))

\* a number on the line after a lone carriage return overflowed, and the error
\* reports line 1, column 3 for the first character of line 2
C16_WitnessLoneCR ==
    /\ Tokenized
    /\ lexResult.kind = "Err"
    /\ input[2] = "\r"
    /\ MinOf(OverflowStarts(input)) = 3
    /\ SourceLine(input, 3) = 2
    /\ SourceColumn(input, 3) = 1
    /\ lexResult.err.line = 1
    /\ lexResult.err.column = 3

\* what holds: every terminator is one Newline token, and the line and the column
\* are counted from the line feeds alone
C16_LineColumnAtLineFeeds ==
    /\ (mode = "text" /\ pc = "tokenize") =>
          /\ Len(SelectKind(tokens, "Newline")) = Cardinality(TerminatorEnds(input, lx.pos))
          /\ lx.line = LineOf(input, lx.pos + 1)
          /\ lx.column = ColumnOf(input, lx.pos + 1)
    /\ (Tokenized /\ lexResult.kind = "Err") =>
          /\ lexResult.err.line = LineOf(input, MinOf(OverflowStarts(input)))
          /\ lexResult.err.column = ColumnOf(input, MinOf(OverflowStarts(input)))

(***************************************************************************)
(* Text and Url tokens.                                                    *)
(***************************************************************************)
\* blanks, line terminators and the characters of the marker and structural tokens
SpecialChars ==
    {" ", "\t", "\n", "\r", "#", "*", BQ, "_", "~", "[", "]", "(", ")", "!", ">", "-", ".",
     "|", ":", "+"}

\* the characters at which a text run ends: all of them but the dot and the colon
RunEnders == SpecialChars \ {".", ":"}

TextTokens == {i \in 1..Len(tokens) : tokens[i].kind \in {"Text", "Url"}}

\* C17, with the dot and the colon left out: every Text or Url token produced from
\* text is not empty, starts with a character that is no digit and none of the
\* special characters, and holds no blank, no line terminator and none of
\* # * ` _ ~ [ ] ( ) ! > - | +; it may hold dots, colons and digits after its
\* first character.  The token just read is the text up to the lexer's position,
\* and the run has stopped at the end of the text or in front of one of those
\* characters.  The token is a Url exactly when it starts with http://, https://,
\* ftp:// or mailto:.
C17_TextRunStops ==
    mode = "text" =>
        /\ \A i \in TextTokens :
              /\ tokens[i].s # <<>>
              /\ tokens[i].s[1] \notin SpecialChars \cup Digits
              /\ \A k \in 1..Len(tokens[i].s) : tokens[i].s[k] \notin RunEnders
              /\ tokens[i].kind = "Url" <=>
                    \E p \in {<<"h", "t", "t", "p", ":", "/", "/">>,
                               <<"h", "t", "t", "p", "s", ":", "/", "/">>,
                               <<"f", "t", "p", ":", "/", "/">>,
                               <<"m", "a", "i", "l", "t", "o", ":">>} :
                        Len(tokens[i].s) >= Len(p) /\ SubSeq(tokens[i].s, 1, Len(p)) = p
        /\ (pc = "tokenize" /\ Len(tokens) \in TextTokens) =>
              /\ tokens[Len(tokens)].s
                    = SubSeq(input, lx.pos - Len(tokens[Len(tokens)].s) + 1, lx.pos)
              /\ lx.pos = Len(input) \/ input[lx.pos + 1] \in RunEnders

\* a Url token that holds a colon and a dot was followed by a Plus token
C17_Witness ==
    /\ mode = "text"
    /\ \E i \in 1..(Len(tokens) - 1) :
          /\ tokens[i].kind = "Url"
          /\ \E k \in 1..Len(tokens[i].s) : tokens[i].s[k] = ":"
          /\ \E k \in 1..Len(tokens[i].s) : tokens[i].s[k] = "."
          /\ tokens[i + 1].kind = "Plus"

\* a Text token that ends in a dot
C17_WitnessDotInText ==
    /\ mode = "text"
    /\ \E i \in 1..Len(tokens) :
          tokens[i].kind = "Text" /\ tokens[i].s[Len(tokens[i].s)] = "."

\* C17 as stated: no Text or Url token holds any of the special characters, the
\* dot and the colon included.
C17_NoSpecialChars ==
    mode = "text" =>
        \A i \in TextTokens :
            \A k \in 1..Len(tokens[i].s) : tokens[i].s[k] \notin SpecialChars

(***************************************************************************)
(* The two text entry points side by side.                                 *)
(***************************************************************************)
\* C18: markdown_parser::parse_markdown and parser::parse_markdown succeed on the
\* same texts and then return the same tree; when the parser fails, the first wraps
\* the ParseError that the second returns; when the lexer fails on a digit run, the
\* second returns UnexpectedToken with the digits as `found` and the line and column
\* of the run, and the first returns NumberTooLarge with the same digits, line and
\* column inside MarkError::Lexer.
C18_EntryPointsAgree ==
    ret.kind = "Returned" =>
        /\ ret.parse_markdown.kind = "Ok" <=> ret.parser_parse_markdown.kind = "Ok"
        /\ ret.parse_markdown.kind = "Ok" =>
              /\ ret.parse_markdown.doc = ret.parser_parse_markdown.doc
              /\ ret.parse_markdown.doc.kind = "Document"
        /\ (ret.parse_markdown.kind = "Err" /\ OverflowStarts(input) = {}) =>
              ret.parse_markdown.err = MarkErrorParser(ret.parser_parse_markdown.err)
        /\ OverflowStarts(input) # {} =>
              LET i == MinOf(OverflowStarts(input)) IN
              /\ ret.parser_parse_markdown
                    = ErrResult([kind |-> "UnexpectedToken", expected |-> "valid number",
                                 found |-> DigitRunAt(input, i), line |-> LineOf(input, i),
                                 column |-> ColumnOf(input, i)])
              /\ ret.parse_markdown
                    = ErrResult([kind |-> "MarkError::Lexer",
                                 inner |-> [kind |-> "NumberTooLarge",
                                            value |-> DigitRunAt(input, i),
                                            line |-> LineOf(input, i),
                                            column |-> ColumnOf(input, i)]])
              /\ ret.parse_markdown.err.inner = lexResult.err

\* a digit run on the second line overflowed: UnexpectedToken from one entry point,
\* MarkError::Lexer(NumberTooLarge) from the other, both at line 2, column 2
C18_Witness ==
    /\ ret.kind = "Returned"
    /\ ret.parser_parse_markdown.kind = "Err"
    /\ ret.parser_parse_markdown.err.kind = "UnexpectedToken"
    /\ ret.parser_parse_markdown.err.line = 2
    /\ ret.parser_parse_markdown.err.column = 2
    /\ ret.parse_markdown.kind = "Err"
    /\ ret.parse_markdown.err.kind = "MarkError::Lexer"
    /\ ret.parse_markdown.err.inner.line = 2

\* both entry points returned the same tree of two blocks
C18_WitnessTree ==
    /\ ret.kind = "Returned"
    /\ call = 1
    /\ ret.parse_markdown.kind = "Ok"
    /\ ret.parser_parse_markdown = ret.parse_markdown
    /\ Len(ret.parse_markdown.doc.children) = 2
    /\ ret.parse_markdown.doc.children[2].kind = "List"

(***************************************************************************)
(* The messages of the BackgroundSearcher.                                 *)
(***************************************************************************)
HasFinished(msgs) == \E i \in 1..Len(msgs) : msgs[i] = Finished

\* the FileFound messages for the first n entries of the walk, in walk order
RECURSIVE FilesAmong(_, _)
FilesAmong(d, n) ==
    IF n = 0 THEN <<>>
    ELSE FilesAmong(d, n - 1) \o (IF Sends(d, d.entries[n]) THEN <<FileFound(n)>> ELSE <<>>)

\* what the worker has sent when the receiver was there for every send: the files
\* found so far, or the Error, and then Finished once the worker is through
ExpectedSent ==
    (IF dir.ok THEN FilesAmong(dir, wi) ELSE IF wpc \in {"finish", "exited"} THEN <<Error>> ELSE <<>>)
        \o (IF wpc = "exited" THEN <<Finished>> ELSE <<>>)

\* C19: the worker sends a FileFound for every markdown file that passes the
\* filters, in walk order, or one Error, and then one Finished, its last message,
\* also after an Error; the messages that try_recv calls have returned, those the
\* current call has taken and those still in the channel are together the messages
\* sent, in send order, none lost and none twice; is_complete is true exactly when a
\* try_recv call has taken Finished out of the channel, and stays true; and unless
\* the searcher is dropped, a try_recv call eventually returns Finished.
C19_MessageProtocol ==
    /\ [](\A i \in 1..Len(sent) : sent[i] = Finished => i = Len(sent))
    /\ [](rpc # "dropped" => sent = ExpectedSent)
    /\ [](rpc # "dropped" => delivered \o messages \o chan = sent)
    /\ [](rpc = "dropped" =>
             Len(delivered) <= Len(sent) /\ delivered = SubSeq(sent, 1, Len(delivered)))
    /\ [](is_complete <=> HasFinished(delivered \o messages))
    /\ [][is_complete => is_complete']_vars
    /\ <>(rpc = "dropped" \/ HasFinished(delivered))

\* two files and Finished were returned by more than one try_recv call, the last of
\* them after the worker had ended
C19_Witness ==
    /\ rpc = "idle"
    /\ wpc = "exited"
    /\ delivered = <<FileFound(1), FileFound(2), Finished>>
    /\ is_complete
    /\ chan = <<>>

\* expand_tilde failed: Error and then Finished were returned
C19_WitnessError ==
    /\ rpc = "idle"
    /\ delivered = <<Error, Finished>>
    /\ is_complete

(***************************************************************************)
(* Termination of parse.                                                   *)
(***************************************************************************)
\* the cursor value at which is_at_end holds: the index of the first Eof, less one,
\* or the length of the tokens
EndCursor ==
    IF \E i \in 1..Len(tokens) : tokens[i].kind = "Eof"
    THEN MinOf({i \in 1..Len(tokens) : tokens[i].kind = "Eof"}) - 1
    ELSE Len(tokens)

\* C20: parse returns on every token sequence, with or without a trailing Eof: no
\* block parser is left running for ever, and the cursor stays within the first Eof
\* or the end of the sequence.
C20_ParseTerminates ==
    /\ pc # "spinning"
    /\ pc # "tokenize" => ps.current <= EndCursor

\* the tokens are one Backtick(3) and no Eof: parse_code_block has consumed the
\* fence and its skip-to-end-of-line loop never ends
C20_WitnessSpinning ==
    /\ mode = "tokens"
    /\ tokens = <<TCount("Backtick", 3)>>
    /\ pc = "spinning"
    /\ ps.current = 1
    /\ result = NoResult

\* what holds: the cursor never decreases and stays within the first Eof or the end
\* of the sequence; every iteration of the block loop consumes a token, returns an
\* error, leaves the parser at the end of input, or never returns; and it always
\* returns when the tokens hold an Eof
C20_TerminatesWithEof ==
    /\ [](pc # "tokenize" => ps.current <= EndCursor)
    /\ [][call' = call => ps'.current >= ps.current]_vars
    /\ [][(pc = "parse" /\ ps' # ps) =>
             \/ ps'.current > ps.current
             \/ pc' = "spinning"]_vars
    /\ [][(pc = "parse" /\ pc' = "parse") => ps'.current > ps.current]_vars
    /\ [](pc = "spinning" => \A i \in 1..Len(tokens) : tokens[i].kind # "Eof")

(***************************************************************************)
(* Line ends inside a paragraph.                                           *)
(***************************************************************************)
BlockStartKinds == {"Hash", "Number", "Hyphen", "Plus", "GreaterThan", "Pipe"}

\* the first token after index i that is neither Whitespace nor Newline starts a block
StartsBlockAfter(toks, i) ==
    LET later == {j \in (i + 1)..Len(toks) : toks[j].kind \notin {"Whitespace", "Newline"}} IN
    /\ later # {}
    /\ \/ toks[MinOf(later)].kind \in BlockStartKinds
       \/ toks[MinOf(later)].kind = "Backtick" /\ toks[MinOf(later)].n >= 3

\* the index of the first token of the block that parse reads next
BlockFirst == BlockStart(tokens, ps)

\* this step of parse read a Paragraph
ReadParagraph ==
    /\ pc = "parse"
    /\ Len(children') = Len(children) + 1
    /\ children'[Len(children')].kind = "Paragraph"

\* the indices of the Newline tokens that the step consumed
NewlinesRead == {i \in BlockFirst..ps'.current : tokens[i].kind = "Newline"}

\* the paragraph stopped at the end of input or in front of a Newline that a block
\* start follows; no Newline it consumed had a block start after it; and it holds one
\* LineBreak for each Newline it consumed
BreaksAtNewlines ==
    /\ \/ is_at_end(tokens, ps')
       \/ /\ KindAt(tokens, ps'.current + 1) = "Newline"
          /\ StartsBlockAfter(tokens, ps'.current + 1)
    /\ \A i \in NewlinesRead : ~StartsBlockAfter(tokens, i)
    /\ CountKind(children'[Len(children')], "LineBreak") = Cardinality(NewlinesRead)

\* C21, as stated: inside a paragraph, every Newline that a block start follows ends
\* the paragraph and is left unconsumed, and every other Newline is consumed and adds
\* exactly one LineBreak.
C21_NewlineEndsOrBreaks == [][ReadParagraph => BreaksAtNewlines]_vars

\* C21, for the Newlines the paragraph loop meets: the paragraph ends in front of a
\* Newline exactly when a block start follows it, and a paragraph without brackets
\* consumes no Newline that a block start follows and holds one LineBreak for each
\* Newline it consumed; inside link text, image alt or a link's url a Newline is
\* consumed without a LineBreak, so that a paragraph never holds more LineBreaks than
\* it consumed Newlines.
C21_ParagraphLoopBreaks ==
    [][ReadParagraph =>
         /\ \/ is_at_end(tokens, ps')
            \/ /\ KindAt(tokens, ps'.current + 1) = "Newline"
               /\ StartsBlockAfter(tokens, ps'.current + 1)
         /\ CountKind(children'[Len(children')], "LineBreak") <= Cardinality(NewlinesRead)
         /\ (\A i \in BlockFirst..ps'.current : tokens[i].kind # "LeftBracket")
                => BreaksAtNewlines]_vars

\* the text `a`, blank line, `a` came back as one Paragraph with two LineBreaks
C21_Witness ==
    /\ input = <<"a", "\n", "\n", "a">>
    /\ result = OkDoc(Document(<<Paragraph(<<Text(<<"a">>), LineBreak, LineBreak,
                                             Text(<<"a">>)>>)>>))

\* the text `a`, blank line, `# a` came back as a Paragraph without LineBreak and a
\* Heading
C21_WitnessBlockStart ==
    /\ input = <<"a", "\n", "\n", "#", " ", "a">>
    /\ result = OkDoc(Document(<<Paragraph(<<Text(<<"a">>)>>),
                                 Heading(1, <<Text(<<"a">>)>>)>>))

\* the text `[a`, line end, `#b](c)` came back as one Paragraph holding one Link: the
\* Newline inside the link text ended nothing and left no LineBreak
C21_WitnessNewlineInLink ==
    /\ input = <<"[", "a", "\n", "#", "b", "]", "(", "c", ")">>
    /\ result = OkDoc(Document(<<Paragraph(<<Link(<<Text(<<"a">>), Text(<<"b">>)>>,
                                                  <<"c">>)>>)>>))

(***************************************************************************)
(* Spans and line ends.                                                    *)
(***************************************************************************)
\* the tokens after index i up to index e hold no Newline
NoNewlineIn(toks, i, e) == \A j \in (i + 1)..e : toks[j].kind # "Newline"

\* C22: when parse_inline_content started on the marker of an Italic, Bold,
\* Strikethrough or InlineCode span returns the node, the tokens it consumed hold no
\* Newline; in particular the span that opens the tokens of a successfully parsed
\* Document lies on one line.
C22_SpansOnOneLine ==
    pc # "tokenize" =>
        \A i \in 1..Len(tokens) :
            SpanOpener(tokens[i]) =>
                \A r \in {parse_inline_content(tokens, ParserAt(i))} :
                    r.ok => NoNewlineIn(tokens, i, r.P.current)

\* the text `*[a`, line end, `b](c)*` came back as a Paragraph holding one Italic over
\* a Link whose text was read from both lines
C22_WitnessLinkAcrossLines ==
    /\ input = <<"*", "[", "a", "\n", "b", "]", "(", "c", ")", "*">>
    /\ Len(tokens) = 11
    /\ tokens[4] = TNewline
    /\ parse_inline_content(tokens, ParserAt(1)).P.current = 10
    /\ result = OkDoc(Document(<<Paragraph(<<Italic(<<Link(<<Text(<<"a">>), Text(<<"b">>)>>,
                                                          <<"c">>)>>)>>)>>))

\* what holds: a span whose tokens hold no left bracket lies on one line, and so does
\* every InlineCode
C22_SpansWithoutBrackets ==
    pc # "tokenize" =>
        \A i \in 1..Len(tokens) :
            SpanOpener(tokens[i]) =>
                \A r \in {parse_inline_content(tokens, ParserAt(i))} :
                    (/\ r.ok
                     /\ \/ tokens[i].kind = "Backtick"
                        \/ \A j \in i..r.P.current : tokens[j].kind # "LeftBracket")
                        => NoNewlineIn(tokens, i, r.P.current)

(***************************************************************************)
(* Markers of count three.                                                 *)
(***************************************************************************)
TripleMarker(tok) == tok.kind \in {"Asterisk", "Underscore"} /\ tok.n = 3

\* the three marker characters as a Text node
MarkerText(tok) == Text(Repeat(DelimiterOf(tok), 3))

\* C23: an Asterisk(3) or Underscore(3) never makes the parse fail: when the same
\* marker does not come back before the end of the line, parse_inline_content started
\* on it returns the three marker characters as one Text node, and a parse whose
\* tokens open with it does not fail on it.
C23_TripleMarkerIsText ==
    pc # "tokenize" =>
        /\ \A i \in 1..Len(tokens) :
              (TripleMarker(tokens[i])
                 /\ ~SpanClosed(tokens, i, SpanEnd(tokens, tokens[i], i + 1))) =>
                 \A r \in {parse_inline_content(tokens, ParserAt(i))} :
                    r.ok /\ r.nodes = <<MarkerText(tokens[i])>>
        /\ (/\ ParseOver
            /\ tokens # <<>>
            /\ TripleMarker(tokens[1])
            /\ PlainBetween(tokens, 1, Len(tokens))
            /\ tokens[Len(tokens)].kind = "Eof") => result.kind = "Ok"

\* the text `***a` failed with UnmatchedDelimiter for the asterisk
C23_WitnessUnmatched ==
    /\ input = <<"*", "*", "*", "a">>
    /\ tokens = <<TCount("Asterisk", 3), TText(<<"a">>), TEof>>
    /\ result = ErrResult(unmatched_delimiter("*", 1, 3))
    /\ Returned
    /\ ret.parse_markdown = ErrResult(MarkErrorParser(unmatched_delimiter("*", 1, 3)))

\* the text `___a___` came back as a Paragraph holding the Text `___` alone
C23_WitnessContentDropped ==
    /\ input = <<"_", "_", "_", "a", "_", "_", "_">>
    /\ result = OkDoc(Document(<<Paragraph(<<Text(<<"_", "_", "_">>)>>)>>))

\* what holds: over text and whitespace, a marker of count three that comes back
\* before the end of the line gives the three marker characters as one Text node, the
\* content between the two markers being dropped, and one that does not come back
\* fails with UnmatchedDelimiter
C23_TripleMarkerSpans ==
    pc # "tokenize" =>
        \A i \in 1..Len(tokens) :
            TripleMarker(tokens[i]) =>
                \A e \in {SpanEnd(tokens, tokens[i], i + 1)} :
                    PlainBetween(tokens, i, e) =>
                        parse_inline_content(tokens, ParserAt(i))
                          = IF SpanClosed(tokens, i, e)
                            THEN OkNodes(<<MarkerText(tokens[i])>>, ParserAt(e + 1))
                            ELSE Err(unmatched_delimiter(DelimiterOf(tokens[i]), 1, e),
                                     ParserAt(e))

(***************************************************************************)
(* The url of a link or image.                                             *)
(***************************************************************************)
\* the strings of the Text and Url tokens strictly between index p and index e
UrlBetween(toks, p, e) ==
    Flatten([j \in 1..(e - p - 1) |->
                IF toks[p + j].kind \in {"Text", "Url"} THEN toks[p + j].s ELSE <<>>])

\* the index of the `(` that follows the text of the bracket at index i, 0 when the
\* text does not end or no `(` follows it
UrlOpening(toks, i) ==
    LET t == BracketLoop(toks, ParserAt(i + 1), PrecededByExclamation(toks, i), <<>>) IN
    IF t.ok /\ KindAt(toks, t.P.current + 1) = "LeftParen" THEN t.P.current + 1 ELSE 0

\* C24: for every left bracket whose text is followed by `(` at index p, with e the
\* index of the first `)` after p (the end of the tokens when there is none): when no
\* Eof lies between them, parse_link_or_image returns a Link or Image whose url is the
\* concatenation of the strings of the Text and Url tokens between p and e, and has
\* consumed every token up to and including the `)`; no node is returned when an Eof
\* lies between them.
C24_UrlOfTextAndUrlTokens ==
    pc # "tokenize" =>
        \A i \in 1..Len(tokens) :
            (tokens[i].kind = "LeftBracket" /\ UrlOpening(tokens, i) > 0) =>
                \A p \in {UrlOpening(tokens, i)} :
                \A e \in {FirstOf(tokens, {"RightParen"}, p + 1)} :
                \A r \in {parse_link_or_image(tokens, ParserAt(i))} :
                    IF \E j \in (p + 1)..(e - 1) : tokens[j].kind = "Eof"
                    THEN ~r.ok
                    ELSE /\ r.ok
                         /\ r.node.kind \in {"Link", "Image"}
                         /\ r.node.url = UrlBetween(tokens, p, e)
                         /\ r.P.current = IF e <= Len(tokens) THEN e ELSE Len(tokens)

\* the text `[a](b`, line end, `-c)` came back as a Paragraph holding a Link with the
\* url `bc`: the Newline and the Hyphen were skipped
C24_Witness ==
    /\ input = <<"[", "a", "]", "(", "b", "\n", "-", "c", ")">>
    /\ UrlOpening(tokens, 1) = 4
    /\ result = OkDoc(Document(<<Paragraph(<<Link(<<Text(<<"a">>)>>, <<"b", "c">>)>>)>>))

\* the text `[a](http://a.a)` came back as a Link with the string of the Url token
C24_WitnessUrlToken ==
    /\ input = <<"[", "a", "]", "(", "h", "t", "t", "p", ":", "/", "/", "a", ".", "a", ")">>
    /\ result = OkDoc(Document(<<Paragraph(<<Link(<<Text(<<"a">>)>>,
                                   <<"h", "t", "t", "p", ":", "/", "/", "a", ".", "a">>)>>)>>))
    /\ tokens[5] = TUrl(<<"h", "t", "t", "p", ":", "/", "/", "a", ".", "a">>)

(***************************************************************************)
(* Tokens without an inline meaning.                                       *)
(***************************************************************************)
\* the tokens that the inline match has an arm for, Whitespace aside
InlineHandled(tok) ==
    \/ tok.kind \in {"Text", "Asterisk", "Underscore", "LeftBracket"}
    \/ tok.kind = "Backtick" /\ tok.n = 1
    \/ tok.kind = "Tilde" /\ tok.n = 2

\* the nodes of the tokens from index i up to index e - 1, none of which opens a span
\* or a bracket: Text for Text, one blank for Whitespace, nothing for the others
RECURSIVE SkippingNodes(_, _, _)
SkippingNodes(toks, i, e) ==
    IF i >= e THEN <<>>
    ELSE (CASE toks[i].kind = "Text" -> <<Text(toks[i].s)>>
            [] toks[i].kind = "Whitespace" -> <<Text(<<" ">>)>>
            [] OTHER -> <<>>) \o SkippingNodes(toks, i + 1, e)

\* C25: at every token that is neither Text, Asterisk, Underscore, LeftBracket,
\* Backtick(1), Tilde(2), Whitespace nor the Eof, parse_inline_content consumes that one
\* token, returns no node and does not fail, and at a Whitespace it consumes it and
\* returns one Text of one blank; a run of tokens up to the line end that opens no
\* span or bracket gives, through parse_inline_content_until_newline, the Text tokens
\* as Text nodes and one blank for each Whitespace, in order, and nothing for any
\* other token, with the cursor left at the line end.  Stated for the token vector
\* that Parser::new has just received.
C25_OtherTokensSkipped ==
    (pc = "parse" /\ ps = ParserNew /\ children = <<>>) =>
        \A i \in 1..Len(tokens) :
            /\ (~InlineHandled(tokens[i]) /\ tokens[i].kind \notin {"Whitespace", "Eof"}) =>
                  \A r \in {parse_inline_content(tokens, ParserAt(i))} :
                     r.ok /\ r.nodes = <<>> /\ r.P.current = i
            /\ tokens[i].kind = "Whitespace" =>
                  \A r \in {parse_inline_content(tokens, ParserAt(i))} :
                     r.ok /\ r.nodes = <<Text(<<" ">>)>> /\ r.P.current = i
            /\ \A e \in {FirstOf(tokens, {"Newline", "Eof"}, i)} :
                  (\A j \in i..(e - 1) : tokens[j].kind = "Text" \/ ~InlineHandled(tokens[j])) =>
                     \A r \in {parse_inline_content_until_newline(tokens, ParserAt(i))} :
                        /\ r.ok
                        /\ r.nodes = SkippingNodes(tokens, i, e)
                        /\ r.P.current = e - 1

\* the text `a 0. a` came back as one Paragraph of `a`, blank, blank, `a`: the Number
\* and the Dot left no node
C25_Witness ==
    /\ input = <<"a", " ", "0", ".", " ", "a">>
    /\ result = OkDoc(Document(<<Paragraph(<<Text(<<"a">>), Text(<<" ">>), Text(<<" ">>),
                                             Text(<<"a">>)>>)>>))
    /\ tokens[3].kind = "Number"
    /\ tokens[4].kind = "Dot"

\* a text of `a`, a blank and an absolute url came back as one Paragraph of `a` and a
\* blank: the Url token left no node
C25_WitnessUrlSkipped ==
    /\ result = OkDoc(Document(<<Paragraph(<<Text(<<"a">>), Text(<<" ">>)>>)>>))
    /\ Len(tokens) = 4
    /\ tokens[3].kind = "Url"

(***************************************************************************)
(* Fenced code blocks.                                                     *)
(***************************************************************************)
IsFence(tok) == tok.kind = "Backtick" /\ tok.n >= 3
ClosesFence(tok) == tok.kind = "Backtick" /\ tok.n \in {3, 4, 5}

\* the first index from j on that holds a closing fence or an Eof; Len(toks) + 1 when
\* there is none
RECURSIVE FenceEnd(_, _)
FenceEnd(toks, j) ==
    IF j > Len(toks) \/ ClosesFence(toks[j]) \/ toks[j].kind = "Eof" THEN j
    ELSE FenceEnd(toks, j + 1)

\* what the tokens from index s up to index e - 1 add to the code
RECURSIVE CodeOf(_, _, _)
CodeOf(toks, s, e) ==
    IF s >= e THEN <<>>
    ELSE (CASE toks[s].kind = "Text" -> toks[s].s
            [] toks[s].kind = "Newline" -> <<"\n">>
            [] OTHER -> TokenDebug(toks[s])) \o CodeOf(toks, s + 1, e)

C26_WitnessUnterminated ==
    /\ input = <<BQ, BQ, BQ, " ", "a", "\n", "a", "\n">>
    /\ result = OkDoc(Document(<<CodeBlock(NoneStr, <<"a", "\n">>)>>))

(***************************************************************************)
(* Blockquotes.                                                            *)
(***************************************************************************)
\* the number of characters c that s starts with
RECURSIVE LeadingRun(_, _)
LeadingRun(s, c) == IF s = <<>> \/ s[1] # c THEN 0 ELSE 1 + LeadingRun(Tail(s), c)

\* what follows the `>` that opens a quoted line, its leading blanks and any further
\* `>` right after them
QuotedText(l) ==
    LET t == SubSeq(l, 2, Len(l))
        u == SubSeq(t, SpanLength(t, TRUE) + 1, Len(t))
    IN  SubSeq(u, LeadingRun(u, ">") + 1, Len(u))

\* `>`, blanks, further `>`, and then words and blanks
IsQuoteLine(l) == Len(l) >= 1 /\ l[1] = ">" /\ IsPlain(QuotedText(l))

QuoteLinesOf(s, blank) == SelectSeq(LinesOf(s), LAMBDA l : ~IsBlank(l, blank))

\* n >= 1 quoted lines and between them only lines that are blank
QuoteOf(s, blank) ==
    /\ Len(QuoteLinesOf(s, blank)) >= 1
    /\ \A i \in 1..Len(QuoteLinesOf(s, blank)) : IsQuoteLine(QuoteLinesOf(s, blank)[i])

\* the inline content of the quoted lines, line after line
ExpectedQuote(s, blank) ==
    Flatten([i \in 1..Len(QuoteLinesOf(s, blank)) |->
                WordsAndBlanks(QuotedText(QuoteLinesOf(s, blank)[i]))])

\* the content of the BlockQuotes among the children of a document, in order
RECURSIVE ContentOfQuotes(_)
ContentOfQuotes(nodes) ==
    IF nodes = <<>> THEN <<>>
    ELSE (IF Head(nodes).kind = "BlockQuote" THEN Head(nodes).content ELSE <<>>)
             \o ContentOfQuotes(Tail(nodes))

\* C27, a line of blanks counting as a blank line: quoted lines with nothing but
\* blank lines between them give exactly one BlockQuote.
C27_BlankLinesOneBlockQuote ==
    (mode = "text" /\ ParseOver /\ lexResult.kind = "Ok" /\ QuoteOf(input, WithBlanks)) =>
        result = OkDoc(Document(<<BlockQuote(ExpectedQuote(input, WithBlanks))>>))

\* the text ends in blanks that no line feed follows
EndsInBlanks(s) ==
    /\ LinesOf(s)[Len(LinesOf(s))] # <<>>
    /\ IsWs(LinesOf(s)[Len(LinesOf(s))])

\* C27, for quoted lines of words and blanks: when the lines of the text are n >= 1
\* lines that start with `>`, with nothing but empty lines before, between and after
\* them, parse returns a Document whose only child is one BlockQuote holding, line
\* after line, a Text per word and a Text(" ") per run of blanks of what follows the
\* `>`, the blanks right after it dropped; a further `>` adds no node.  When lines of
\* blanks stand among them as well, the same content comes back in source order, in
\* one BlockQuote or in several, followed by a Paragraph without content exactly
\* when the text ends in blanks that no line feed follows.  In every Document that
\* parse returns, a BlockQuote is a child of the Document and never lies inside
\* another node.
C27_QuoteLinesOneBlockQuote ==
    /\ (mode = "text" /\ ParseOver /\ lexResult.kind = "Ok" /\ QuoteOf(input, EmptyOnly)) =>
          result = OkDoc(Document(<<BlockQuote(ExpectedQuote(input, EmptyOnly))>>))
    /\ (mode = "text" /\ ParseOver /\ lexResult.kind = "Ok" /\ QuoteOf(input, WithBlanks)) =>
          /\ result.kind = "Ok"
          /\ \A i \in 1..Len(result.doc.children) :
                IF i = Len(result.doc.children) /\ EndsInBlanks(input)
                THEN result.doc.children[i] = Paragraph(<<>>)
                ELSE result.doc.children[i].kind = "BlockQuote"
          /\ ContentOfQuotes(result.doc.children) = ExpectedQuote(input, WithBlanks)
    /\ result.kind = "Ok" =>
          CountKind(result.doc, "BlockQuote")
            = Cardinality({i \in 1..Len(result.doc.children) :
                              result.doc.children[i].kind = "BlockQuote"})

\* `> a`, an empty line, `>> a` and `>a a` came back as one BlockQuote
C27_Witness ==
    /\ input = <<">", " ", "a", "\n", "\n", ">", ">", " ", "a", "\n", ">", "a", " ", "a", "\n">>
    /\ result = OkDoc(Document(<<BlockQuote(<<Text(<<"a">>), Text(<<" ">>), Text(<<"a">>),
                                               Text(<<"a">>), Text(<<" ">>), Text(<<"a">>)>>)>>))

\* `> a`, a line that holds one blank, and `> a` came back as two BlockQuotes
C27_WitnessTwoBlockQuotes ==
    /\ input = <<">", " ", "a", "\n", " ", "\n", ">", " ", "a", "\n">>
    /\ result = OkDoc(Document(<<BlockQuote(<<Text(<<"a">>)>>), BlockQuote(<<Text(<<"a">>)>>)>>))

(***************************************************************************)
(* Horizontal rules.                                                       *)
(***************************************************************************)
\* a line of three or more hyphens and nothing else
IsRuleLine(l) == Len(l) >= 3 /\ \A i \in 1..Len(l) : l[i] = "-"

RuleLineCount(s) == Cardinality({i \in 1..Len(LinesOf(s)) : IsRuleLine(LinesOf(s)[i])})

RuleChildren(doc) == Cardinality({i \in 1..Len(doc.children) :
                                    doc.children[i].kind = "HorizontalRule"})

RequiresThreeHyphens == "Horizontal rule requires at least 3 hyphens"

\* C28: when a text without backticks parses, the Document has exactly one
\* HorizontalRule child for each of its lines that consists solely of three or more
\* hyphens, whatever precedes the line; and parse never returns the InvalidList of
\* parse_horizontal_rule.
C28_RuleLinesGiveRules ==
    /\ (mode = "text" /\ result.kind = "Ok" /\ \A i \in 1..Len(input) : input[i] # BQ) =>
          RuleChildren(result.doc) = RuleLineCount(input)
    /\ result.kind = "Err" =>
          ~(result.err.kind = "InvalidList" /\ result.err.message = RequiresThreeHyphens)

\* the text `- a`, line end, `---` came back as one List of two items, the second one
\* empty, and no HorizontalRule
C28_WitnessRuleInList ==
    /\ input = <<"-", " ", "a", "\n", "-", "-", "-", "\n">>
    /\ result = OkDoc(Document(<<List(FALSE, <<ListItem(<<Text(<<"a">>)>>), ListItem(<<>>)>>)>>))

\* the text `|a|`, line end, `---`, line end, `|a|` came back as one Table with one
\* row: the line of hyphens was taken for the separator line
C28_WitnessRuleAsSeparator ==
    /\ input = <<"|", "a", "|", "\n", "-", "-", "-", "\n", "|", "a", "|", "\n">>
    /\ result.kind = "Ok"
    /\ Len(result.doc.children) = 1
    /\ result.doc.children[1].kind = "Table"
    /\ Len(result.doc.children[1].rows) = 1

\* the number of lines of hyphens that do not follow, with nothing but empty lines
\* and lines of hyphens between, a line that starts with `-` or `+`
RECURSIVE RulesOutsideLists(_, _)
RulesOutsideLists(lines, inList) ==
    IF lines = <<>> THEN 0
    ELSE IF Head(lines) = <<>> THEN RulesOutsideLists(Tail(lines), inList)
    ELSE IF IsRuleLine(Head(lines))
         THEN (IF inList THEN 0 ELSE 1) + RulesOutsideLists(Tail(lines), inList)
    ELSE RulesOutsideLists(Tail(lines), Head(lines)[1] \in {"-", "+"})

\* what holds: in a text whose lines are list items, blank lines and lines of hyphens,
\* a line of hyphens gives one HorizontalRule child unless it follows an unordered
\* item, where it becomes an empty ListItem; and parse never returns the InvalidList
\* of parse_horizontal_rule
C28_RulesOutsideLists ==
    /\ (/\ mode = "text"
        /\ result.kind = "Ok"
        /\ \A i \in 1..Len(LinesOf(input)) :
               \/ IsRuleLine(LinesOf(input)[i])
               \/ IsWs(LinesOf(input)[i])
               \/ IsOrderedItem(LinesOf(input)[i])
               \/ IsUnorderedItem(LinesOf(input)[i])) =>
          RuleChildren(result.doc) = RulesOutsideLists(LinesOf(input), FALSE)
    /\ result.kind = "Err" =>
          ~(result.err.kind = "InvalidList" /\ result.err.message = RequiresThreeHyphens)

\* `1. a`, line end, `---` came back as an ordered List and a HorizontalRule
C28_WitnessRuleAfterOrderedList ==
    /\ input = <<"1", ".", " ", "a", "\n", "-", "-", "-", "\n">>
    /\ result = OkDoc(Document(<<List(TRUE, <<ListItem(<<Text(<<"a">>)>>)>>), HorizontalRule>>))

(***************************************************************************)
(* Paragraphs without content.                                             *)
(***************************************************************************)
BlankChars == WsChars \cup {"\n", "\r"}

IsBlankText(s) == \A i \in 1..Len(s) : s[i] \in BlankChars

\* C29, as stated: every Paragraph among the children of a Document that parse
\* returns has at least one content node, and a text of spaces, tabs and line
\* terminators parses to a Document without children.
C29_NoEmptyParagraph ==
    result.kind = "Ok" =>
        /\ \A i \in 1..Len(result.doc.children) :
               result.doc.children[i].kind = "Paragraph" =>
                   Len(result.doc.children[i].content) >= 1
        /\ (mode = "text" /\ IsBlankText(input)) => result.doc.children = <<>>

\* C29, with the Paragraphs that have no content: a text of spaces, tabs and line
\* terminators parses to a Document without children when it is empty or ends with a
\* line terminator, and to a Document whose only child is a Paragraph without content
\* when it ends with a space or tab; and a Paragraph that parse reads has no content
\* exactly when every token it consumed is a token without an inline meaning.
C29_EmptyParagraphs ==
    /\ [](mode = "text" /\ ParseOver /\ IsBlankText(input) =>
             result = OkDoc(Document(IF input # <<>> /\ input[Len(input)] \in WsChars
                                     THEN <<Paragraph(<<>>)>> ELSE <<>>)))
    /\ [][ReadParagraph =>
             (children'[Len(children')].content = <<>>
                <=> \A i \in BlockFirst..ps'.current :
                       /\ ~InlineHandled(tokens[i])
                       /\ tokens[i].kind \notin {"Whitespace", "Newline"})]_vars

\* a text of one space came back as a Document holding one Paragraph without content
C29_Witness ==
    /\ input = <<" ">>
    /\ tokens = <<TWhitespace, TEof>>
    /\ result = OkDoc(Document(<<Paragraph(<<>>)>>))

\* a text of a space and a line end came back as a Document without children
C29_WitnessNoChildren ==
    /\ input = <<" ", "\n">>
    /\ ParseOver
    /\ result = OkDoc(Document(<<>>))

\* a text of one exclamation mark came back as a Paragraph without content
C29_WitnessSkippedToken ==
    /\ input = <<"!">>
    /\ result = OkDoc(Document(<<Paragraph(<<>>)>>))

(***************************************************************************)
(* The FileList component (src/ui/components/file_list.rs), driven by its  *)
(* owner one method call at a time.  lpc is "ready" between calls,         *)
(* "overflow" once an unsigned subtraction has gone below zero ("attempt   *)
(* to subtract with overflow" where overflow checks are compiled in, a     *)
(* wrapped index where they are not) and "slice" once get_visible_files    *)
(* has indexed files[start..end] with start > end, which panics in every   *)
(* build.  The run is not followed past either.                            *)
(***************************************************************************)
MaxFiles == 3
MaxHeight == 15

Files(n) == [i \in 1..n |-> i]
Queries == {"", "q"}

file_count(fl) == IF fl.is_searching THEN Len(fl.filtered_files) ELSE Len(fl.files)

total_pages(fl) ==
    IF file_count(fl) = 0
    THEN 1
    ELSE (file_count(fl) + fl.items_per_page - 1) \div fl.items_per_page

\* state.selected().unwrap_or(0)
current_selection(fl) == IF fl.selected.some THEN fl.selected.index ELSE 0

start_index(fl) == fl.current_page * fl.items_per_page

end_index(fl) == MinOf({(fl.current_page + 1) * fl.items_per_page, file_count(fl)})

SubtractOverflow ==
    /\ lpc' = "overflow"
    /\ UNCHANGED file_list

Returns(fl) ==
    /\ lpc' = "ready"
    /\ file_list' = fl

FileListInit ==
    /\ NoParse
    /\ NoSearcher
    /\ \E n \in 0..MaxFiles : file_list = FileListNew(Files(n))
    /\ lpc = "ready"

update_items_per_page ==
    /\ lpc = "ready"
    /\ \E height \in 0..MaxHeight :
          LET available_height == IF height < 6 THEN 0 ELSE height - 6
          IN  Returns([file_list EXCEPT
                  !.items_per_page = IF available_height \div 3 < 1 THEN 1
                                     ELSE available_height \div 3])
    /\ UNCHANGED <<parserVars, searchVars>>

next ==
    /\ lpc = "ready"
    /\ IF \/ current_selection(file_list) < start_index(file_list)
          \/ end_index(file_list) < start_index(file_list)
       THEN SubtractOverflow
       ELSE LET relative_selection ==
                    current_selection(file_list) - start_index(file_list)
            IN  IF relative_selection + 1
                       < end_index(file_list) - start_index(file_list)
                THEN Returns([file_list EXCEPT
                        !.selected = SomeIndex(current_selection(file_list) + 1)])
                ELSE IF file_list.current_page + 1 < total_pages(file_list)
                THEN Returns([file_list EXCEPT
                        !.current_page = @ + 1,
                        !.selected = SomeIndex((file_list.current_page + 1)
                                               * file_list.items_per_page)])
                ELSE Returns(file_list)
    /\ UNCHANGED <<parserVars, searchVars>>

previous ==
    /\ lpc = "ready"
    /\ IF current_selection(file_list) < start_index(file_list)
       THEN SubtractOverflow
       ELSE IF current_selection(file_list) - start_index(file_list) > 0
       THEN Returns([file_list EXCEPT
               !.selected = SomeIndex(current_selection(file_list) - 1)])
       ELSE IF file_list.current_page > 0
       THEN LET new_end == MinOf({file_list.current_page * file_list.items_per_page,
                                  Len(file_list.files)})
            IN  IF new_end = 0
                THEN /\ lpc' = "overflow"
                     /\ file_list' = [file_list EXCEPT !.current_page = @ - 1]
                ELSE Returns([file_list EXCEPT
                        !.current_page = @ - 1,
                        !.selected = SomeIndex(new_end - 1)])
       ELSE Returns(file_list)
    /\ UNCHANGED <<parserVars, searchVars>>

go_to_top ==
    /\ lpc = "ready"
    /\ IF file_count(file_list) > 0
       THEN Returns([file_list EXCEPT !.current_page = 0, !.selected = SomeIndex(0)])
       ELSE Returns(file_list)
    /\ UNCHANGED <<parserVars, searchVars>>

go_to_bottom ==
    /\ lpc = "ready"
    /\ IF file_count(file_list) > 0
       THEN Returns([file_list EXCEPT
               !.current_page = total_pages(file_list) - 1,
               !.selected = SomeIndex(file_count(file_list) - 1)])
       ELSE Returns(file_list)
    /\ UNCHANGED <<parserVars, searchVars>>

next_page ==
    /\ lpc = "ready"
    /\ IF file_list.current_page + 1 < total_pages(file_list)
       THEN IF current_selection(file_list) < start_index(file_list)
            THEN SubtractOverflow
            ELSE LET relative_position ==
                         current_selection(file_list) - start_index(file_list)
                     new_start == (file_list.current_page + 1) * file_list.items_per_page
                     new_end == MinOf({(file_list.current_page + 2)
                                           * file_list.items_per_page,
                                       file_count(file_list)})
                 IN  Returns([file_list EXCEPT
                         !.current_page = @ + 1,
                         !.selected = SomeIndex(MinOf({new_start + relative_position,
                                                       new_end - 1}))])
       ELSE Returns(file_list)
    /\ UNCHANGED <<parserVars, searchVars>>

previous_page ==
    /\ lpc = "ready"
    /\ IF file_list.current_page > 0
       THEN IF current_selection(file_list) < start_index(file_list)
            THEN SubtractOverflow
            ELSE Returns([file_list EXCEPT
                    !.current_page = @ - 1,
                    !.selected = SomeIndex((file_list.current_page - 1)
                                               * file_list.items_per_page
                                           + current_selection(file_list)
                                           - start_index(file_list))])
       ELSE Returns(file_list)
    /\ UNCHANGED <<parserVars, searchVars>>

\* &files[start..end]: the slice, or a panic when start > end
get_visible_files(fl) ==
    IF start_index(fl) > end_index(fl)
    THEN [panic |-> TRUE, slice |-> <<>>]
    ELSE [panic |-> FALSE,
          slice |-> SubSeq(IF fl.is_searching THEN fl.filtered_files ELSE fl.files,
                           start_index(fl) + 1, end_index(fl))]

\* FileList::render: the only state it touches is a local ListState
render ==
    /\ lpc = "ready"
    /\ IF get_visible_files(file_list).panic
       THEN /\ lpc' = "slice"
            /\ UNCHANGED file_list
       ELSE Returns(file_list)
    /\ UNCHANGED <<parserVars, searchVars>>

start_search ==
    /\ lpc = "ready"
    /\ Returns([file_list EXCEPT
           !.is_searching = TRUE,
           !.search_input_mode = TRUE,
           !.search_query = "",
           !.filtered_files = file_list.files,
           !.current_page = 0,
           !.selected = NoIndex])
    /\ UNCHANGED <<parserVars, searchVars>>

end_search ==
    /\ lpc = "ready"
    /\ Returns([file_list EXCEPT
           !.is_searching = FALSE,
           !.search_input_mode = FALSE,
           !.search_query = "",
           !.current_page = 0,
           !.selected = IF file_list.files # <<>> THEN SomeIndex(0) ELSE @])
    /\ UNCHANGED <<parserVars, searchVars>>

\* matched: the files whose path the fuzzy matcher matches against the query
update_search ==
    /\ lpc = "ready"
    /\ \E query \in Queries, matched \in SUBSET (1..MaxFiles) :
          LET filtered == IF query = ""
                          THEN file_list.files
                          ELSE SelectSeq(file_list.files, LAMBDA f : f \in matched)
          IN  Returns([file_list EXCEPT
                  !.search_query = query,
                  !.filtered_files = filtered,
                  !.current_page = 0,
                  !.selected = IF query # "" /\ filtered # <<>>
                               THEN SomeIndex(0) ELSE NoIndex])
    /\ UNCHANGED <<parserVars, searchVars>>

select_first ==
    /\ lpc = "ready"
    /\ IF \/ file_list.is_searching /\ file_list.filtered_files # <<>>
          \/ file_list.files # <<>>
       THEN Returns([file_list EXCEPT !.selected = SomeIndex(0)])
       ELSE Returns(file_list)
    /\ UNCHANGED <<parserVars, searchVars>>

exit_search_input_mode ==
    /\ lpc = "ready"
    /\ Returns([file_list EXCEPT !.search_input_mode = FALSE])
    /\ UNCHANGED <<parserVars, searchVars>>

FileListNext ==
    \/ update_items_per_page
    \/ next
    \/ previous
    \/ go_to_top
    \/ go_to_bottom
    \/ next_page
    \/ previous_page
    \/ render
    \/ start_search
    \/ end_search
    \/ update_search
    \/ select_first
    \/ exit_search_input_mode

FileListSpec == FileListInit /\ [][FileListNext]_vars

(***************************************************************************)
(* C30: between any two FileList calls, current_page * items_per_page is   *)
(* at most the number of displayed files, a selected index lies inside the *)
(* current page and below the number of displayed files, and no call has   *)
(* subtracted below zero or sliced out of range.                           *)
(***************************************************************************)
SelectionInRange(fl) ==
    fl.selected.some =>
        /\ start_index(fl) <= fl.selected.index
        /\ fl.selected.index < start_index(fl) + fl.items_per_page
        /\ fl.selected.index < file_count(fl)

PageInRange(fl) == start_index(fl) <= file_count(fl)

C30_PageAndSelectionInRange ==
    lpc # "none" =>
        /\ lpc = "ready"
        /\ PageInRange(file_list)
        /\ SelectionInRange(file_list)

\* three files shown one per page, the last one selected, then a frame two
\* items high: page 2 now starts at index 4 and the slice files[4..3] panics
C30_WitnessSliceOutOfRange ==
    /\ lpc = "slice"
    /\ Len(file_list.files) = 3
    /\ ~file_list.is_searching
    /\ file_list.items_per_page = 2
    /\ file_list.current_page = 2
    /\ file_list.selected = SomeIndex(2)

\* the same resize with two files: the slice is empty, the next call to
\* next, previous or next_page computes 1 - 2
C30_WitnessSubtractOverflow ==
    /\ lpc = "overflow"
    /\ Len(file_list.files) = 2
    /\ file_list.items_per_page = 2
    /\ file_list.current_page = 1
    /\ file_list.selected = SomeIndex(1)

\* select_first during a search that matches nothing selects index 0 of an
\* empty list
C30_WitnessSelectedInEmptyList ==
    /\ lpc = "ready"
    /\ file_list.is_searching
    /\ file_list.filtered_files = <<>>
    /\ file_list.selected = SomeIndex(0)

\* C30, what holds: a call that leaves items_per_page alone and is not a
\* select_first on a later page or on an empty result keeps the page and the
\* selection in range, and returns.
C30_InRangeAtFixedHeight ==
    [][(/\ lpc = "ready"
        /\ PageInRange(file_list)
        /\ SelectionInRange(file_list)
        /\ file_list'.items_per_page = file_list.items_per_page
        /\ ~(/\ file_list'.selected = SomeIndex(0)
             /\ file_list'.current_page = file_list.current_page
             /\ \/ file_list.current_page > 0
                \/ file_count(file_list) = 0))
       => /\ lpc' = "ready"
          /\ PageInRange(file_list')
          /\ SelectionInRange(file_list')]_vars

====
